---- MODULE Spec2Model ----
(***************************************************************************)
(* A model of scripts/tt_decoder_v2.py, the heuristic decoder of one       *)
(* CHAPS .tt timetable file (class TTDecoderV2).                           *)
(*                                                                         *)
(* The file is a sequence of bytes (0..255).  Python offsets are 0-based,  *)
(* so byte  data[o]  of the source is  d[o + 1]  here.  A decoded cp1250   *)
(* character is written as its cp1250 byte value; the five byte values     *)
(* cp1250 leaves undefined decode to ReplacementChar (U+FFFD).             *)
(***************************************************************************)
EXTENDS Integers, Sequences, FiniteSets, TLC

VARIABLES
    data,               \* self.data: the file's bytes
    stops,              \* self.stops: list of stop names
    p_records,          \* self.p_records
    trips,              \* self.trips: list of lists of <<stop_index, minute>>
    edges,              \* self.edges: dict (insertion ordered) key -> samples
    best_stop_offset,   \* self.best_stop_offset (NoneInt before selection)
    best_time_offset,   \* self.best_time_offset (NoneInt before selection)
    stop_quality_score, \* self.stop_quality_score, a rational [num, den]
    sections,           \* _decode_time_records_smart: sections[:16]
    section_i,          \* ... the section the loop is at, counted from 1
    best_trips,         \* ... best_trips, with best_offset and best_score
    cur_offset,         \* _decode_from_offset: the loop's offset
    dec,                \* ... trips, current_trip, prev_minutes, same_minute_streak
    trip_i,             \* _extract_edges: the trip the loop is at, counted from 1
    pc,                 \* the statement that runs next
    ret,                \* what decode() returned ("running" until it does)
    argv,               \* main: sys.argv[1:]
    target,             \* what the path argument names in the file system
    tt_files,           \* batch_decode: the sorted files of the directory
    file_i,             \* ... the file the loop is at, counted from 1
    success_count,      \* ... success_count
    total_stops,        \* ... total_stops
    total_trips,        \* ... total_trips
    total_edges,        \* ... total_edges
    output,             \* the lines main and batch_decode have printed
    exported,           \* the 'edges' objects of the JSON files written
    exit_code,          \* the exit status of the process (NoneInt while it runs)
    cli_pc,             \* the statement of main or batch_decode that runs next
    feeds,              \* the merger: the sources main found, with their files
    integrator,         \* ... the fields of GTFSIntegratorFast
    classic,            \* ... the fields of GTFSIntegrator its stop loader uses
    files,              \* ... the rows of the output files
    source_i,           \* ... the source the loop of main is at, counted from 1
    merge_pc            \* ... the loop of main that runs

fields == <<stops, p_records, trips, edges, best_stop_offset, best_time_offset,
            stop_quality_score>>

locals == <<sections, section_i, best_trips, cur_offset, dec, trip_i>>

driver == <<argv, target, tt_files, file_i, success_count, total_stops, total_trips,
            total_edges, output, exported, exit_code, cli_pc>>

merger == <<feeds, integrator, classic, files, source_i, merge_pc>>

vars == <<data, fields, locals, pc, ret, driver, merger>>

\* None where the source holds an integer or None (an offset, a minute):
\* no offset and no minute is negative.
NoneInt == -1

\* None where the source holds a list or None.  Every such list is
\* non-empty when it is not None (a candidate has item_count - 1 >= 1
\* names, a selected trip list passed "if not trips: continue").
NoneList == <<>>

(***************************************************************************)
(* Sequences and sets.                                                     *)
(***************************************************************************)
Range(s) == { s[i] : i \in 1..Len(s) }

Min2(a, b) == IF a < b THEN a ELSE b

RECURSIVE SumSeq(_)
SumSeq(s) ==
    IF Len(s) = 0 THEN 0
    ELSE IF Len(s) = 1 THEN s[1]
    ELSE SumSeq(SubSeq(s, 1, Len(s) \div 2)) + SumSeq(SubSeq(s, Len(s) \div 2 + 1, Len(s)))

\* Number of elements of s that satisfy P (sum(1 for x in s if P(x))).
CountIf(s, P(_)) == Cardinality({ i \in 1..Len(s) : P(s[i]) })

\* Python's  needle in haystack  for strings.
Contains(hay, needle) ==
    \E i \in 0..(Len(hay) - Len(needle)) :
        \A j \in 1..Len(needle) : hay[i + j] = needle[j]

\* Python's  s.startswith(prefix).
StartsWith(s, prefix) ==
    /\ Len(prefix) <= Len(s)
    /\ \A j \in 1..Len(prefix) : s[j] = prefix[j]

(***************************************************************************)
(* Code page 1250 and Python's str methods on the decoded characters.      *)
(***************************************************************************)
ReplacementChar == 65533

Cp1250Undefined == {129, 131, 136, 144, 152}

\* bytes.decode('cp1250', errors='replace')
decode_replace(bs) ==
    [i \in 1..Len(bs) |-> IF bs[i] \in Cp1250Undefined THEN ReplacementChar ELSE bs[i]]

\* bytes.decode('cp1250', errors='ignore')
decode_ignore(bs) == SelectSeq(bs, LAMBDA b : b \notin Cp1250Undefined)

\* str.isspace() of one decoded character
IsSpace(c) == c \in {9, 10, 11, 12, 13, 28, 29, 30, 31, 32, 160}

\* str.isalpha() of one decoded character
IsAlphaChar(c) ==
    \/ c \in 65..90 \/ c \in 97..122
    \/ c \in {138, 140, 141, 142, 143, 154, 156, 157, 158, 159}
    \/ c \in {161, 163, 165, 170, 175, 179, 181, 185, 186, 188, 190, 191}
    \/ (c \in 192..254 /\ c \notin {215, 247})

\* str.isalpha(): non-empty and every character alphabetic
isalpha(s) == s # <<>> /\ \A i \in 1..Len(s) : IsAlphaChar(s[i])

\* str.lower() of one decoded character
LowerChar(c) ==
    IF c \in 65..90 THEN c + 32
    ELSE IF c \in {138, 140, 141, 142, 143} THEN c + 16
    ELSE IF c \in {163, 170, 175} THEN c + 16
    ELSE IF c = 165 THEN 185
    ELSE IF c = 188 THEN 190
    ELSE IF c \in 192..222 /\ c # 215 THEN c + 32
    ELSE c

lower(s) == [i \in 1..Len(s) |-> LowerChar(s[i])]

\* str.rstrip('\x00')
RECURSIVE rstrip_nul(_)
rstrip_nul(s) ==
    IF s # <<>> /\ s[Len(s)] = 0 THEN rstrip_nul(SubSeq(s, 1, Len(s) - 1)) ELSE s

\* str.strip(): leading and trailing whitespace removed
RECURSIVE rstrip_space(_)
rstrip_space(s) ==
    IF s # <<>> /\ IsSpace(s[Len(s)]) THEN rstrip_space(SubSeq(s, 1, Len(s) - 1)) ELSE s

RECURSIVE lstrip_space(_)
lstrip_space(s) ==
    IF s # <<>> /\ IsSpace(s[1]) THEN lstrip_space(Tail(s)) ELSE s

strip(s) == lstrip_space(rstrip_space(s))

(***************************************************************************)
(* Keyword tables of the class.                                            *)
(***************************************************************************)
\* SERVICE_TEXT_KEYWORDS (lines 15-63), each keyword as its cp1250 character codes.
SERVICE_TEXT_KEYWORDS ==
  { <<97, 114, 98, 101, 105, 116, 115, 116, 97, 103, 101>>,   \* arbeitstage
     <<119, 111, 114, 107, 105, 110, 103, 32, 100, 97, 121>>,   \* working day
     <<109, 111, 110, 100, 97, 121>>,   \* monday
     <<116, 117, 101, 115, 100, 97, 121>>,   \* tuesday
     <<119, 101, 100, 110, 101, 115, 100, 97, 121>>,   \* wednesday
     <<116, 104, 117, 114, 115, 100, 97, 121>>,   \* thursday
     <<102, 114, 105, 100, 97, 121>>,   \* friday
     <<115, 97, 116, 117, 114, 100, 97, 121>>,   \* saturday
     <<115, 117, 110, 100, 97, 121>>,   \* sunday
     <<106, 101, 100, 101>>,   \* jede
     <<112, 114, 101, 109, 225, 118, 97>>,   \* premava
     <<109, 111, 110, 116, 97, 103>>,   \* montag
     <<100, 105, 101, 110, 115, 116, 97, 103>>,   \* dienstag
     <<109, 105, 116, 116, 119, 111, 99, 104>>,   \* mittwoch
     <<100, 111, 110, 110, 101, 114, 115, 116, 97, 103>>,   \* donnerstag
     <<102, 114, 101, 105, 116, 97, 103>>,   \* freitag
     <<115, 97, 109, 115, 116, 97, 103>>,   \* samstag
     <<115, 111, 110, 110, 116, 97, 103>>,   \* sonntag
     <<112, 111, 110, 100, 236, 108, 237>>,   \* pondeli
     <<250, 116, 101, 114, 253>>,   \* utery
     <<115, 116, 248, 101, 100, 117>>,   \* stredu
     <<232, 116, 118, 114, 116, 101, 107>>,   \* ctvrtek
     <<112, 225, 116, 101, 107>>,   \* patek
     <<115, 111, 98, 111, 116, 117>>,   \* sobotu
     <<110, 101, 100, 236, 108, 105>>,   \* nedeli
     <<112, 114, 97, 99, 111, 118, 110, 237, 99, 104, 32, 100, 110, 101, 99, 104>>,   \* pracovnich dnech
     <<112, 111, 110, 100, 101, 108, 111, 107>>,   \* pondelok
     <<117, 116, 111, 114, 111, 107>>,   \* utorok
     <<115, 116, 114, 101, 100, 117>>,   \* stredu
     <<154, 116, 118, 114, 116, 111, 107>>,   \* stvrtok
     <<112, 105, 97, 116, 111, 107>>,   \* piatok
     <<110, 101, 100, 101, 190, 117>>,   \* nedelu
     <<112, 114, 97, 99, 111, 118, 110, 253, 99, 104, 32, 100, 242, 111, 99, 104>>,   \* pracovnych dnoch
     <<106, 101, 100, 101, 32, 118>>,   \* jede v
     <<115, 116, 225, 116, 101, 109, 32, 117, 122, 110, 97, 110, 233, 32, 115, 118, 225, 116, 107, 121>>,   \* statem uznane svatky
     <<154, 116, 225, 116, 111, 109, 32, 117, 122, 110, 97, 110, 233, 32, 115, 118, 105, 97, 116, 107, 121>>,   \* statom uznane sviatky
     <<112, 108, 97, 116, 122, 114, 101, 115, 101, 114, 118, 105, 101, 114, 117, 110, 103>>,   \* platzreservierung
     <<109, 237, 115, 116, 101, 110, 107, 117>>,   \* mistenku
     <<114, 101, 122, 101, 114, 118, 97, 99, 101>>,   \* rezervace
     <<114, 101, 122, 101, 114, 118, 225, 99, 105, 97>>,   \* rezervacia
     <<98, 101, 122, 98, 97, 114, 105, 233, 114, 111>>,   \* bezbariero
     <<111, 98, 232, 101, 114, 115, 116, 118, 101, 110>>,   \* obcerstven
     <<110, 97, 32, 122, 110, 97, 109, 101, 110, 237>>,   \* na znameni
     <<110, 97, 32, 122, 110, 97, 109, 101, 110, 105, 101>>,   \* na znamenie
     <<105, 110, 116, 101, 103, 114, 111, 118, 97, 110, 101, 106, 32, 100, 111, 112, 114, 97, 118, 121>>,   \* integrovanej dopravy
     <<115, 118, 225, 116, 101, 107>>,   \* svatek
     <<115, 118, 105, 97, 116>> }   \* sviat

\* BAD_STOP_KEYWORDS (lines 65-71), each keyword as its cp1250 character codes.
BAD_STOP_KEYWORDS ==
  { <<99, 111, 112, 121, 114, 105, 103, 104, 116>>,   \* copyright
     <<104, 116, 116, 112, 58, 47, 47>>,   \* http://
     <<104, 116, 116, 112, 115, 58, 47, 47>>,   \* https://
     <<105, 110, 116, 101, 114, 110, 101, 116>>,   \* internet
     <<112, 105, 100, 46, 116, 116>> }   \* pid.tt

\* STOP_NOTE_KEYWORDS (lines 73-91), each keyword as its cp1250 character codes.
STOP_NOTE_KEYWORDS ==
  { <<123, 108, 125>>,   \* {l}
     <<164, 164>>,   \* ??
     <<115, 112, 111, 106, 32>>,   \* spoj 
     <<108, 105, 110, 107, 97, 32>>,   \* linka 
     <<106, 101, 100, 101, 32, 106, 101, 110>>,   \* jede jen
     <<116, 97, 114, 105, 102>>,   \* tarif
     <<112, 248, 101, 112, 114, 97, 118>>,   \* preprav
     <<112, 114, 101, 112, 114, 97, 118>>,   \* preprav
     <<99, 101, 110, 237, 107>>,   \* cenik
     <<99, 101, 110, 110, 237, 107>>,   \* cennik
     <<105, 110, 102, 111, 114, 109, 97, 99, 101>>,   \* informace
     <<118, 111, 122, 105, 100, 108, 101, 99, 104>>,   \* vozidlech
     <<122, 118, 253, 104, 111, 100, 110, 236>>,   \* zvyhodne
     <<122, 118, 121, 104, 111, 100, 110, 101>>,   \* zvyhodne
     <<98, 97, 110, 107, 111, 118, 110, 237>>,   \* bankovni
     <<98, 97, 110, 107, 111, 118, 117>>,   \* bankovu
     <<110, 97, 32, 108, 105, 110, 99, 101, 32, 112, 108, 97, 116, 237>> }   \* na lince plati

\* POI_KEYWORDS (lines 545-548), each keyword as its cp1250 character codes.
POI_KEYWORDS ==
  { <<117, 110, 105, 99, 114, 101, 100, 105, 116>>,   \* unicredit
     <<115, 112, 111, 248, 105, 116, 101, 108, 110, 97>>,   \* sporitelna
     <<115, 112, 111, 114, 105, 116, 101, 108, 110, 97>>,   \* sporitelna
     <<112, 111, 98, 111, 232, 107, 97>>,   \* pobocka
     <<112, 111, 98, 111, 99, 107, 97>>,   \* pobocka
     <<97, 46, 115, 46>>,   \* a.s.
     <<98, 97, 110, 107, 111, 109, 97, 116>>,   \* bankomat
     <<98, 97, 110, 107, 97, 44>>,   \* banka,
     <<98, 97, 110, 107, 44>> }   \* bank,

(***************************************************************************)
(* Reading the byte buffer.                                                *)
(***************************************************************************)
\* data[a:b] for 0 <= a; Python clips b to the length.
Slice(d, a, b) == SubSeq(d, a + 1, Min2(b, Len(d)))

MaxInt == 2147483647

\* struct.unpack('<I', data[o:o+4])[0].  The model's integers end at
\* MaxInt, so a word whose top bit is set reads as MaxInt: every use below
\* compares the word with a number under MaxInt (a length, a count), for
\* which the saturated word answers as the real one does.
U32(d, o) ==
    IF d[o + 4] >= 128 THEN MaxInt
    ELSE d[o + 1] + 256 * d[o + 2] + 65536 * d[o + 3] + 16777216 * d[o + 4]

\* The three fields of a time word (lines 369-371, 480-486).
Byte1(d, o) == d[o + 2]                            \* (val >> 8) & 0xFF
Minutes(d, o) == d[o + 3] + 256 * (d[o + 4] % 128)   \* (val >> 16) & 0x7FFF
StopIdx(d, o) == d[o + 1]                          \* val & 0xFF

(***************************************************************************)
(* _verify_header                                                          *)
(***************************************************************************)
HeaderMinLen == 66
HeaderTextLen == 60

TokenTT == <<84, 84>>                                         \* 'TT'
TokenTimeTable == <<84, 105, 109, 101, 84, 97, 98, 108, 101>>  \* 'TimeTable'
TokenCHAPS == <<67, 72, 65, 80, 83>>                          \* 'CHAPS'

\* The length test left out.
verify_header_unsized(d) ==
    LET header_str == decode_ignore(Slice(d, 0, HeaderTextLen))
    IN  /\ Contains(header_str, TokenTT)
        /\ Contains(header_str, TokenTimeTable)
        /\ Contains(header_str, TokenCHAPS)

verify_header(d) ==
    IF Len(d) < HeaderMinLen THEN FALSE
    ELSE LET header_str == decode_ignore(Slice(d, 0, HeaderTextLen))
         IN  /\ Contains(header_str, TokenTT)
             /\ Contains(header_str, TokenTimeTable)
             /\ Contains(header_str, TokenCHAPS)

(***************************************************************************)
(* _is_likely_service_text                                                 *)
(***************************************************************************)
is_likely_service_text(name) ==
    LET lowered == lower(name)
    IN  \E keyword \in SERVICE_TEXT_KEYWORDS : Contains(lowered, keyword)

(***************************************************************************)
(* _extract_stop_candidate: the list of names at offset, or NoneList.      *)
(* Each operator is a run of the function's statements; it hands what it   *)
(* read to the next one.                                                   *)
(***************************************************************************)
MinItemCount == 2
MaxItemCount == 20000

\* Lines 187-199: the names between consecutive offsets of the blob.
stop_names_of(blob_data, offsets, item_count, blob_size_1) ==
    IF \E i \in 1..(item_count - 1) :
           offsets[i + 1] < offsets[i] \/ offsets[i + 1] > blob_size_1
    THEN NoneList
    ELSE [i \in 1..(item_count - 1) |->
             strip(rstrip_nul(decode_replace(Slice(blob_data, offsets[i], offsets[i + 1]))))]

\* The test of the last offset left out.
check_blob_any_last(d, item_count, offsets, blob_start, blob_size_1) ==
    IF Slice(d, blob_start, blob_start + 4) # Slice(d, blob_start + 4, blob_start + 8)
       \/ blob_size_1 <= 0
    THEN NoneList
    ELSE IF blob_size_1 > Len(d) \/ blob_start + 8 + blob_size_1 > Len(d) THEN NoneList
    ELSE stop_names_of(Slice(d, blob_start + 8, blob_start + 8 + blob_size_1),
                       offsets, item_count, blob_size_1)

\* Lines 170-185: the two blob sizes, the last offset, the blob's extent.
\* blob_size_1 != blob_size_2 is decided on the bytes of the two words.
check_blob(d, item_count, offsets, blob_start, blob_size_1) ==
    IF Slice(d, blob_start, blob_start + 4) # Slice(d, blob_start + 4, blob_start + 8)
       \/ blob_size_1 <= 0
    THEN NoneList
    ELSE IF offsets[item_count] # blob_size_1 THEN NoneList
    ELSE IF blob_size_1 > Len(d) \/ blob_start + 8 + blob_size_1 > Len(d) THEN NoneList
    ELSE stop_names_of(Slice(d, blob_start + 8, blob_start + 8 + blob_size_1),
                       offsets, item_count, blob_size_1)

\* Lines 161-168: the offsets must not decrease (prev_off starts at -1).
check_offsets(d, item_count, offsets, blob_start) ==
    IF \E i \in 2..item_count : offsets[i] < offsets[i - 1] THEN NoneList
    ELSE check_blob(d, item_count, offsets, blob_start, U32(d, blob_start))

\* Lines 150-159.  The count's range is tested before
\* total_bytes = item_count * 4 so that the product stays under MaxInt;
\* both tests return None.
check_counts(d, offset, total_bytes, item_count) ==
    IF item_count < MinItemCount \/ item_count > MaxItemCount THEN NoneList
    ELSE IF total_bytes # item_count * 4 THEN NoneList
    ELSE IF offset + 8 + total_bytes + 8 > Len(d) THEN NoneList
    ELSE check_offsets(d, item_count,
                       [i \in 1..item_count |-> U32(d, offset + 8 + (i - 1) * 4)],
                       offset + 8 + total_bytes)

extract_stop_candidate(d, offset) ==
    IF offset + 8 > Len(d) THEN NoneList
    ELSE check_counts(d, offset, U32(d, offset), U32(d, offset + 4))

(***************************************************************************)
(* _score_stop_candidate.  The source computes a float; the model keeps    *)
(* the exact rational  num / den  with den = len(stop_names), or -inf.     *)
(***************************************************************************)
MinStopNames == 10

NegInf == [inf |-> TRUE, num |-> 0, den |-> 1]

Rational(n, d) == [inf |-> FALSE, num |-> n, den |-> d]

\* a > b
ScoreGT(a, b) ==
    IF a.inf THEN FALSE
    ELSE IF b.inf THEN TRUE
    ELSE a.num * b.den > b.num * a.den

\* a >= k for an integer k
ScoreGE(a, k) == ~a.inf /\ a.num >= k * a.den

MarkupChars == {123, 125, 164, 124}   \* '{', '}', the currency sign, '|'

\* Lines 223-252, times n = len(stop_names):  avg_len = total_len / n,
\* unique_ratio = unique / n, alpha_ratio = alpha_chars / (total_len or 1).
stop_score(n, bad_hits, service_hits, note_hits, empty_count, short_count,
           very_long_count, markup_count, unique, total_len, alpha_chars) ==
    Rational(
        n * ( n - bad_hits * 15 - service_hits * 10 - note_hits * 10
                - empty_count * 20 - short_count * 4 - very_long_count * 6
                - markup_count * 15
                - (IF 4 * service_hits > n THEN 80 ELSE 0)
                - (IF 5 * note_hits > n THEN 80 ELSE 0)
                - (IF 100 * alpha_chars < 45 * (IF total_len = 0 THEN 1 ELSE total_len)
                   THEN 30 ELSE 0)
                - (IF 10 * unique < 6 * n THEN 25 ELSE 0)
                - (IF 5 * very_long_count > n THEN 50 ELSE 0) )
        + 2 * Min2(total_len, 30 * n) + 35 * unique,
        n)

score_stop_candidate(stop_names) ==
    IF Len(stop_names) < MinStopNames THEN NegInf
    ELSE stop_score(
        Len(stop_names),
        CountIf(stop_names,
            LAMBDA name : \E keyword \in BAD_STOP_KEYWORDS : Contains(lower(name), keyword)),
        CountIf(stop_names, is_likely_service_text),
        CountIf(stop_names,
            LAMBDA name : \E keyword \in STOP_NOTE_KEYWORDS : Contains(lower(name), keyword)),
        CountIf(stop_names, LAMBDA name : name = <<>>),
        CountIf(stop_names, LAMBDA name : Len(strip(name)) <= 1),
        CountIf(stop_names, LAMBDA name : Len(name) > 45),
        CountIf(stop_names, LAMBDA name : \E i \in 1..Len(name) : name[i] \in MarkupChars),
        Cardinality(Range(stop_names)),
        SumSeq([i \in 1..Len(stop_names) |-> Len(stop_names[i])]),
        SumSeq([i \in 1..Len(stop_names) |->
            Cardinality({ j \in 1..Len(stop_names[i]) : IsAlphaChar(stop_names[i][j]) })]))

(***************************************************************************)
(* _find_stops                                                             *)
(***************************************************************************)
StopScanStart == 64   \* 0x40

search_limit(file_size) ==
    IF file_size < 1000000 THEN file_size
    ELSE IF file_size < 10000000 THEN 1000000
    ELSE IF file_size < 40000000 THEN 4000000
    ELSE 8000000

\* range(first, stop, step) as a sequence
PyRange(first, stop, step) ==
    IF stop <= first THEN <<>>
    ELSE [i \in 1..((stop - first + step - 1) \div step) |-> first + (i - 1) * step]

\* The offsets in the order the two nested loops visit them.
offsets_upto(max_offset) ==
    PyRange(StopScanStart + 0, max_offset, 4) \o PyRange(StopScanStart + 1, max_offset, 4)
    \o PyRange(StopScanStart + 2, max_offset, 4) \o PyRange(StopScanStart + 3, max_offset, 4)

stop_scan_offsets(d) ==
    offsets_upto(Min2(StopScanStart + search_limit(Len(d)), Len(d) - 8))

NoBest == [names |-> NoneList, score |-> NegInf, offset |-> NoneInt]

\* The candidates found, in scan order, each with its offset and score.
stop_candidates(d, offs) ==
    SelectSeq([k \in 1..Len(offs) |->
                  [offset |-> offs[k], names |-> extract_stop_candidate(d, offs[k])]],
              LAMBDA c : c.names # NoneList)

scored_candidates(cs) ==
    [k \in 1..Len(cs) |->
        [offset |-> cs[k].offset, names |-> cs[k].names,
         score |-> score_stop_candidate(cs[k].names)]]

\* best_score starts at -inf and a candidate replaces the best only when
\* its score is strictly greater, so the loop ends with the first
\* candidate, in scan order, whose score no candidate exceeds (with none
\* when every candidate scores -inf).
first_best(sc) ==
    IF \A k \in 1..Len(sc) : sc[k].score.inf THEN NoBest
    ELSE sc[CHOOSE k \in 1..Len(sc) :
               /\ ~sc[k].score.inf
               /\ \A j \in 1..Len(sc) : ~ScoreGT(sc[j].score, sc[k].score)
               /\ \A j \in 1..(k - 1) : ScoreGT(sc[k].score, sc[j].score)]

scan_stops(d, offs) == first_best(scored_candidates(stop_candidates(d, offs)))

AcceptScore == 20

\* The low-quality fallback left out: a best score under 20 fails.
accept_best_strict(best) ==
    IF best.names # NoneList /\ Len(best.names) >= MinStopNames
           /\ ScoreGE(best.score, AcceptScore)
    THEN [ok |-> TRUE, stops |-> best.names, offset |-> best.offset,
          score |-> best.score]
    ELSE [ok |-> FALSE, stops |-> NoneList, offset |-> NoneInt, score |-> NegInf]

\* Lines 289-312: [ok, stops, offset, score], the value returned and the
\* three fields assigned (nothing is assigned when ok is FALSE).
accept_best(best) ==
    IF best.names # NoneList /\ Len(best.names) >= MinStopNames
           /\ ScoreGE(best.score, AcceptScore)
    THEN [ok |-> TRUE, stops |-> best.names, offset |-> best.offset,
          score |-> best.score]
    ELSE IF best.names # NoneList /\ Len(best.names) >= MinStopNames
    \* the low-quality fallback
    THEN [ok |-> TRUE, stops |-> best.names, offset |-> best.offset,
          score |-> best.score]
    ELSE [ok |-> FALSE, stops |-> NoneList, offset |-> NoneInt, score |-> NegInf]

\* The finder without the bound on the length: a table read at 0x40 is
\* taken as it is.
find_stops_any_length(d) ==
    IF extract_stop_candidate(d, StopScanStart) # NoneList
    THEN [ok |-> TRUE, stops |-> extract_stop_candidate(d, StopScanStart),
          offset |-> StopScanStart, score |-> Rational(0, 1)]
    ELSE accept_best(scan_stops(d, stop_scan_offsets(d)))

find_stops(d) == accept_best(scan_stops(d, stop_scan_offsets(d)))

(***************************************************************************)
(* _find_p_records                                                         *)
(***************************************************************************)
PRecordStart == 4096     \* 0x1000
PRecordSpan == 50000
PRecordTail == 100
PRecordKeep == 50
LetterP == 80            \* b'P'
Separator == <<164, 164>>  \* b'\xa4\xa4'

\* The inner while loop: the first position from record_end on that is at
\* end or starts a separator.
RECURSIVE p_record_end(_, _, _)
p_record_end(d, record_end, end) ==
    IF record_end < end /\ Slice(d, record_end, record_end + 2) # Separator
    THEN p_record_end(d, record_end + 1, end)
    ELSE record_end

\* Lines 328-334: the record data[i:record_end] joins the list.
with_record(records, record_str) ==
    IF StartsWith(record_str, <<LetterP>>) THEN Append(records, record_str) ELSE records

RECURSIVE p_scan(_, _, _, _)
RECURSIVE p_take(_, _, _, _, _)
p_take(d, i, end, records, record_end) ==
    p_scan(d, record_end + 2, end,
           with_record(records, decode_ignore(Slice(d, i, record_end))))

p_scan(d, i, end, records) ==
    IF ~(i < end - PRecordTail) THEN records
    ELSE IF d[i + 1] = LetterP
    THEN p_take(d, i, end, records, p_record_end(d, i + 1, end))
    ELSE p_scan(d, i + 1, end, records)

first_records(records) == SubSeq(records, 1, Min2(PRecordKeep, Len(records)))

find_p_records(d) ==
    first_records(p_scan(d, PRecordStart, Min2(PRecordStart + PRecordSpan, Len(d)), <<>>))

(***************************************************************************)
(* _find_time_sections                                                     *)
(***************************************************************************)
TimeScanStart == 256     \* 0x100
TimeScanStride == 1024   \* 0x400
ProbeWords == 30
MaxMinutes == 1440
MinValid == 10
MinUniqueTimes == 5
MinUniqueStops == 3

scan_limit(file_size) ==
    IF file_size < 1000000 THEN file_size
    ELSE IF file_size < 10000000 THEN 5000000
    ELSE 20000000

\* The words of the probe that are read (before the loop breaks at the end
\* of the data) and valid, as indices 0..29.
valid_words(d, offset) ==
    { i \in 0..(ProbeWords - 1) :
          /\ ~(offset + i * 4 + 3 >= Len(d))
          /\ Byte1(d, offset + i * 4) = 0
          /\ Minutes(d, offset + i * 4) <= MaxMinutes }

\* The thresholds of the minutes and the stops taken as reached when met.
section_record_lenient(offset, valid_count, times, stop_count) ==
    IF valid_count >= MinValid /\ times >= MinUniqueTimes /\ stop_count >= MinUniqueStops
    THEN << [offset |-> offset, scan_score |-> valid_count * times * stop_count,
             valid |-> valid_count, times |-> times, stops |-> stop_count] >>
    ELSE <<>>

\* Lines 380-388: the section records the probe appends (one or none).
section_record(offset, valid_count, times, stop_count) ==
    IF valid_count >= MinValid /\ times > MinUniqueTimes /\ stop_count > MinUniqueStops
    THEN << [offset |-> offset, scan_score |-> valid_count * times * stop_count,
             valid |-> valid_count, times |-> times, stops |-> stop_count] >>
    ELSE <<>>

probe_section(d, offset) ==
    section_record(offset,
        Cardinality(valid_words(d, offset)),
        Cardinality({ Minutes(d, offset + i * 4) : i \in valid_words(d, offset) }),
        Cardinality({ StopIdx(d, offset + i * 4) : i \in valid_words(d, offset) }))

\* list.sort(key=scan_score, reverse=True): stable, so sections of equal
\* score keep the order in which they were found.
RECURSIVE Flatten(_)
Flatten(ss) ==
    IF Len(ss) = 0 THEN <<>>
    ELSE IF Len(ss) = 1 THEN ss[1]
    ELSE Flatten(SubSeq(ss, 1, Len(ss) \div 2)) \o Flatten(SubSeq(ss, Len(ss) \div 2 + 1, Len(ss)))

RECURSIVE insert_section(_, _)
insert_section(sorted, x) ==
    IF sorted = <<>> THEN <<x>>
    ELSE IF Head(sorted).scan_score >= x.scan_score
         THEN <<Head(sorted)>> \o insert_section(Tail(sorted), x)
         ELSE <<x>> \o sorted

RECURSIVE sort_sections(_, _)
sort_sections(found, sorted) ==
    IF found = <<>> THEN sorted
    ELSE sort_sections(Tail(found), insert_section(sorted, Head(found)))

\* start-major, alignment-minor, as the nested loops run
probe_all(d, starts) ==
    Flatten([k \in 1..(4 * Len(starts)) |->
                probe_section(d, starts[((k - 1) \div 4) + 1] + ((k - 1) % 4))])

find_time_sections(d) ==
    sort_sections(
        probe_all(d, PyRange(TimeScanStart, Min2(Len(d), scan_limit(Len(d))), TimeScanStride)),
        <<>>)

(***************************************************************************)
(* _decode_from_offset.  The loop's locals are one record:                 *)
(*   trips, current_trip, prev_minutes (NoneInt or a minute),              *)
(*   same_minute_streak.                                                   *)
(* The loop itself is the action DecodeWord below, one word a step.        *)
(***************************************************************************)
DecodeSpan == 50000
MaxJump == 240
MaxStreak == 3

DecodeStart ==
    [trips |-> <<>>, current_trip |-> <<>>, prev_minutes |-> NoneInt,
     same_minute_streak |-> 0]

\* Lines 494-506: the two trip boundaries, applied in turn.
close_trip(st) ==
    [st EXCEPT !.trips = IF Len(st.current_trip) >= 2
                         THEN Append(st.trips, st.current_trip) ELSE st.trips,
               !.current_trip = <<>>,
               !.same_minute_streak = 0]

\* The regression boundary left out: the trip runs on through a drop in time.
after_regression_ignored(st, minutes) == st

\* The regression boundary with the emit left out: the trip that ends at a
\* drop in time is thrown away.
after_regression_unclosed(st, minutes) ==
    IF st.prev_minutes # NoneInt /\ minutes < st.prev_minutes
    THEN [st EXCEPT !.current_trip = <<>>, !.same_minute_streak = 0]
    ELSE st

after_regression(st, minutes) ==
    IF st.prev_minutes # NoneInt /\ minutes < st.prev_minutes THEN close_trip(st) ELSE st

\* The jump boundary one minute early: a step of 240 minutes closes the trip.
after_jump_inclusive(st, minutes) ==
    IF st.prev_minutes # NoneInt /\ minutes - st.prev_minutes >= MaxJump THEN close_trip(st) ELSE st

after_jump(st, minutes) ==
    IF st.prev_minutes # NoneInt /\ minutes - st.prev_minutes > MaxJump THEN close_trip(st) ELSE st

\* The append without the streak bound: every word of a minute is kept.
append_entry_uncapped(st, stop_idx, minutes) ==
    IF st.current_trip # <<>>
       /\ st.current_trip[Len(st.current_trip)] = <<stop_idx, minutes>>
    THEN [st EXCEPT !.prev_minutes = minutes]
    ELSE [st EXCEPT !.same_minute_streak = 1,
                    !.current_trip = Append(st.current_trip, <<stop_idx, minutes>>),
                    !.prev_minutes = minutes]

\* Lines 508-523: duplicate suppression, the same-minute streak, the append.
append_entry(st, stop_idx, minutes) ==
    IF st.current_trip # <<>>
       /\ st.current_trip[Len(st.current_trip)] = <<stop_idx, minutes>>
    THEN [st EXCEPT !.prev_minutes = minutes]
    ELSE IF st.prev_minutes # NoneInt /\ minutes = st.prev_minutes
    THEN IF st.same_minute_streak + 1 > MaxStreak
         THEN [st EXCEPT !.same_minute_streak = st.same_minute_streak + 1,
                         !.prev_minutes = minutes]
         ELSE [st EXCEPT !.same_minute_streak = st.same_minute_streak + 1,
                         !.current_trip = Append(st.current_trip, <<stop_idx, minutes>>),
                         !.prev_minutes = minutes]
    ELSE [st EXCEPT !.same_minute_streak = 1,
                    !.current_trip = Append(st.current_trip, <<stop_idx, minutes>>),
                    !.prev_minutes = minutes]

\* A word of a stop past the table is skipped but its minute is kept as the
\* previous one.
accept_word_tracking(nstops, st, stop_idx, minutes) ==
    IF minutes > MaxMinutes THEN st
    ELSE IF nstops = 0 \/ stop_idx >= nstops THEN [st EXCEPT !.prev_minutes = minutes]
    ELSE append_entry(after_jump(after_regression(st, minutes), minutes), stop_idx, minutes)

\* Lines 488-523: the loop body for a word whose byte1 is 0.
accept_word(nstops, st, stop_idx, minutes) ==
    IF minutes > MaxMinutes THEN st
    ELSE IF nstops = 0 \/ stop_idx >= nstops THEN st
    ELSE append_entry(after_jump(after_regression(st, minutes), minutes), stop_idx, minutes)

\* byte1 not tested and read as the high byte of the stop index.
decode_word_wide_index(d, nstops, st, offset) ==
    accept_word(nstops, st, StopIdx(d, offset) + 256 * Byte1(d, offset), Minutes(d, offset))

\* One iteration of the loop body on the word at offset.
decode_word(d, nstops, st, offset) ==
    IF Byte1(d, offset) # 0 THEN st
    ELSE accept_word(nstops, st, StopIdx(d, offset), Minutes(d, offset))

\* Lines 474-476: the loop runs while offset < end - 3.
decode_end(d, start_offset) == Min2(start_offset + DecodeSpan, Len(d))

\* Lines 528-531: the last trip is emitted when it has two entries.
flush_trip(st) ==
    IF Len(st.current_trip) >= 2 THEN Append(st.trips, st.current_trip) ELSE st.trips

(***************************************************************************)
(* _score_trips: the exact rational with den = number of valid trips.      *)
(***************************************************************************)
StopsOf(trip) == { trip[i][1] : i \in 1..Len(trip) }

LongTrip == 6

\* Lines 402-418, times n = len(lengths): avg_len = total_records / n.
trip_score_of(total_records, n, unique_stops, long_trips) ==
    Rational(
        n * ( total_records + n * 5 + unique_stops * 2 + long_trips * 8
                - (IF 10 * total_records < 22 * n THEN 120 ELSE 0)
                - (IF unique_stops < 4 THEN 80 ELSE 0) )
        + 3 * total_records,
        n)

\* Lines 398-411 on the valid trips (each has two stops, so none is empty
\* and lengths has one entry per valid trip).
score_valid_trips(valid_trips) ==
    IF valid_trips = <<>> THEN NegInf
    ELSE trip_score_of(
        SumSeq([i \in 1..Len(valid_trips) |-> Len(valid_trips[i])]),
        Len(valid_trips),
        Cardinality(UNION { StopsOf(valid_trips[i]) : i \in 1..Len(valid_trips) }),
        CountIf(valid_trips, LAMBDA trip : Len(trip) >= LongTrip))

score_trips(ts) ==
    IF ts = <<>> THEN NegInf
    ELSE score_valid_trips(SelectSeq(ts, LAMBDA trip : Cardinality(StopsOf(trip)) >= 2))

(***************************************************************************)
(* _decode_time_records_smart                                              *)
(***************************************************************************)
TopSections == 16
SingleTripMin == 10

\* trip_score + scan_score / 1000.0
combined_score(trip_score, scan_score) ==
    Rational(trip_score.num * 1000 + scan_score * trip_score.den, trip_score.den * 1000)

NoBestTrips == [trips |-> NoneList, offset |-> NoneInt, score |-> NegInf]

\* Lines 448-451.
keep_better(best, offset, ts, combined) ==
    IF ScoreGT(combined, best.score)
    THEN [trips |-> ts, offset |-> offset, score |-> combined]
    ELSE best

\* Lines 443-446.
consider_scored(best, section, ts, trip_score) ==
    IF trip_score.inf THEN best
    ELSE keep_better(best, section.offset, ts, combined_score(trip_score, section.scan_score))

\* The filter on a single short trip left out.
consider_section_unfiltered(best, section, ts) ==
    IF ts = <<>> THEN best
    ELSE consider_scored(best, section, ts, score_trips(ts))

\* Lines 436-441: the body of the loop for one section, given its trips.
consider_section(best, section, ts) ==
    IF ts = <<>> THEN best
    ELSE IF Len(ts) < 2 /\ ~(Len(ts) = 1 /\ Len(ts[1]) >= SingleTripMin) THEN best
    ELSE consider_scored(best, section, ts, score_trips(ts))

\* Lines 453-465: [ok, trips, offset], the value returned and the fields assigned.
select_trips(best) ==
    IF best.trips = NoneList THEN [ok |-> FALSE, trips |-> NoneList, offset |-> NoneInt]
    ELSE [ok |-> TRUE, trips |-> best.trips, offset |-> best.offset]

\* sections[:16]
top_sections(found) == SubSeq(found, 1, Min2(TopSections, Len(found)))

(***************************************************************************)
(* _filter_stops                                                           *)
(***************************************************************************)
Star == 42   \* '*'

is_bad_stop(name) ==
    \/ name = <<>> \/ strip(name) = <<>>
    \/ StartsWith(name, <<164, 164>>)
    \/ Contains(name, <<123, 76, 125>>) \/ Contains(name, <<123, 108, 125>>)
    \/ (StartsWith(name, <<Star>>) /\ Len(name) <= 6 /\ isalpha(Tail(name)))
    \/ \E kw \in SERVICE_TEXT_KEYWORDS : Contains(lower(name), kw)
    \/ \E kw \in POI_KEYWORDS : Contains(lower(name), kw)

\* Step 1: the stop indices some trip entry names.
referenced_indices(ts) == UNION { StopsOf(ts[i]) : i \in 1..Len(ts) }

\* The name test left out: every referenced stop survives.
kept_indices_unscreened(ss, referenced) ==
    SelectSeq([i \in 1..Len(ss) |-> i - 1], LAMBDA old_idx : old_idx \in referenced)

\* The reference test left out: every stop of a good name survives.
kept_indices_unreferenced(ss, referenced) ==
    SelectSeq([i \in 1..Len(ss) |-> i - 1], LAMBDA old_idx : ~is_bad_stop(ss[old_idx + 1]))

\* Step 3: the old indices that survive, in increasing order; the new index
\* of old index kept[k] is k - 1, and new_stops[k] = stops[kept[k] + 1].
kept_indices(ss, referenced) ==
    SelectSeq([i \in 1..Len(ss) |-> i - 1],
              LAMBDA old_idx : old_idx \in referenced /\ ~is_bad_stop(ss[old_idx + 1]))

\* The re-indexing left out: an entry keeps its old index.
old_to_new_unmapped(kept, old_idx) == old_idx

\* old_to_new[old_idx], for old_idx in the mapping
old_to_new(kept, old_idx) == (CHOOSE k \in 1..Len(kept) : kept[k] = old_idx) - 1

\* Step 4 for one trip: the entries whose stop survived, re-indexed.
reindex_entries(kept, surviving) ==
    [i \in 1..Len(surviving) |-> <<old_to_new(kept, surviving[i][1]), surviving[i][2]>>]

\* The rewrite of the trips left out: a trip keeps its entries and their
\* old indices.
remap_trip_unscrubbed(kept, trip) == trip

remap_trip(kept, trip) ==
    reindex_entries(kept, SelectSeq(trip, LAMBDA e : e[1] \in Range(kept)))

\* Step 5: the edges whose two endpoints survived, re-keyed.
reindex_edges(kept, surviving) ==
    [i \in 1..Len(surviving) |->
        [key |-> <<old_to_new(kept, surviving[i].key[1]),
                   old_to_new(kept, surviving[i].key[2])>>,
         times |-> surviving[i].times]]

remap_edges(kept, es) ==
    reindex_edges(kept,
        SelectSeq(es, LAMBDA e : e.key[1] \in Range(kept) /\ e.key[2] \in Range(kept)))

\* The rewrite without the early return: it runs when no stop survives.
remap_all_unguarded(ss, ts, es, kept) ==
    [stops |-> [k \in 1..Len(kept) |-> ss[kept[k] + 1]],
     trips |-> SelectSeq([i \in 1..Len(ts) |-> remap_trip(kept, ts[i])],
                         LAMBDA new_trip : Len(new_trip) >= 2),
     edges |-> remap_edges(kept, es)]

\* Lines 578-605, given the surviving old indices.
remap_all(ss, ts, es, kept) ==
    IF kept = <<>> THEN [stops |-> ss, trips |-> ts, edges |-> es]
    ELSE [stops |-> [k \in 1..Len(kept) |-> ss[kept[k] + 1]],
          trips |-> SelectSeq([i \in 1..Len(ts) |-> remap_trip(kept, ts[i])],
                              LAMBDA new_trip : Len(new_trip) >= 2),
          edges |-> remap_edges(kept, es)]

\* The fields stops, trips, edges as _filter_stops leaves them.
filter_stops(ss, ts, es) ==
    IF ss = <<>> \/ ts = <<>> THEN [stops |-> ss, trips |-> ts, edges |-> es]
    ELSE remap_all(ss, ts, es, kept_indices(ss, referenced_indices(ts)))

(***************************************************************************)
(* _extract_edges.  The dict is the sequence of its items in insertion     *)
(* order: [key |-> <<from, to>>, times |-> samples].                       *)
(***************************************************************************)
MinTravel == 1
MaxTravel == 60

\* self.edges[edge].append(travel_time), creating the list when absent
add_sample(es, edge, travel_time) ==
    IF \E i \in 1..Len(es) : es[i].key = edge
    THEN [i \in 1..Len(es) |->
             IF es[i].key = edge
             THEN [es[i] EXCEPT !.times = Append(es[i].times, travel_time)]
             ELSE es[i]]
    ELSE Append(es, [key |-> edge, times |-> <<travel_time>>])

\* The upper limit on the travel time left out.
sample_edge_unbounded(es, stop_from, stop_to, travel_time) ==
    IF stop_from = stop_to THEN es
    ELSE IF travel_time < MinTravel THEN es
    ELSE add_sample(es, <<stop_from, stop_to>>, travel_time)

\* Lines 614-625, given the two stops and the travel time.
sample_edge(es, stop_from, stop_to, travel_time) ==
    IF stop_from = stop_to THEN es
    ELSE IF travel_time < MinTravel \/ travel_time > MaxTravel THEN es
    ELSE add_sample(es, <<stop_from, stop_to>>, travel_time)

\* The loop body for the pair (trip[i], trip[i + 1]), i counted from 1.
edge_of_pair(es, trip, i) ==
    sample_edge(es, trip[i][1], trip[i + 1][1], trip[i + 1][2] - trip[i][2])

RECURSIVE edges_of_trip(_, _, _)
edges_of_trip(es, trip, i) ==
    IF i >= Len(trip) THEN es
    ELSE edges_of_trip(edge_of_pair(es, trip, i), trip, i + 1)

\* The whole of _extract_edges: the trips from the t-th on, added to es.
RECURSIVE extract_edges(_, _, _)
extract_edges(es, ts, t) ==
    IF t > Len(ts) THEN es
    ELSE extract_edges(edges_of_trip(es, ts[t], 1), ts, t + 1)

(***************************************************************************)
(* export_json: the 'edges' object of the file written, one element per    *)
(* edge in the order of the dict.  Strings are sequences of character      *)
(* codes; travel_time_avg, rounded to one decimal, is kept in tenths.      *)
(***************************************************************************)
\* 'Stop#'
StopHash == <<83, 116, 111, 112, 35>>
\* '->'
Arrow == <<45, 62>>

\* str(n) for n >= 0
RECURSIVE Decimal(_)
Decimal(n) == IF n < 10 THEN <<48 + n>> ELSE Decimal(n \div 10) \o <<48 + (n % 10)>>

\* Lines 649-650: the name of the endpoint, or f"Stop#{idx}" for an index
\* beyond the list.
endpoint_name(ss, idx) == IF idx < Len(ss) THEN ss[idx + 1] ELSE StopHash \o Decimal(idx)

\* round(sum(times) / len(times), 1) in tenths.  The quotient is halfway
\* between two tenths only for a multiple of a quarter, which the float
\* holds exactly and round() takes to the even tenth (fewer than 20 samples).
avg_tenths(times) ==
    LET total == 10 * SumSeq(times)
        n == Len(times)
        q == total \div n
        r == total % n
    IN  IF 2 * r < n THEN q
        ELSE IF 2 * r > n THEN q + 1
        ELSE IF q % 2 = 0 THEN q ELSE q + 1

export_edge(ss, e) ==
    [key |-> Decimal(e.key[1]) \o Arrow \o Decimal(e.key[2]),
     from_stop |-> endpoint_name(ss, e.key[1]),
     to_stop |-> endpoint_name(ss, e.key[2]),
     travel_time_avg |-> avg_tenths(e.times),
     travel_time_min |-> CHOOSE t \in Range(e.times) : \A u \in Range(e.times) : t <= u,
     travel_time_max |-> CHOOSE t \in Range(e.times) : \A u \in Range(e.times) : t >= u,
     samples |-> Len(e.times)]

export_json(ss, es) == [i \in 1..Len(es) |-> export_edge(ss, es[i])]

(***************************************************************************)
(* The feed merger: integrate_all_data_fast.py (GTFSIntegratorFast and its *)
(* main) and the stop loader of integrate_all_data.py (GTFSIntegrator).    *)
(* A source name and an identifier of a feed are sequences of characters,  *)
(* a dict is a function on its keys, a .txt file is [exists, rows], and a  *)
(* new identifier f'ST_{n}' is <<"ST", n>>.                                *)
(***************************************************************************)
\* '' and None
EmptyStr == << >>
NoneId == << "None" >>

\* d.get(k, default), d[k] = v, and the truth value of an identifier
Get(d, k, default) == IF k \in DOMAIN d THEN d[k] ELSE default
Put(d, k, v) == [x \in DOMAIN d \cup {k} |-> IF x = k THEN v ELSE d[x]]
Truthy(id) == id # EmptyStr /\ id # NoneId

NoFile == [exists |-> FALSE, rows |-> << >>]
File(rows) == [exists |-> TRUE, rows |-> rows]

\* GTFSIntegratorFast.__init__
NewIntegrator ==
    [next_agency_id |-> 1, next_stop_id |-> 1, next_route_id |-> 1, next_trip_id |-> 1,
     next_service_id |-> 1,
     agency_map |-> << >>, stop_map |-> << >>, route_map |-> << >>, trip_map |-> << >>,
     service_map |-> << >>,
     stop_names |-> << >>,
     agencies |-> << >>, stops |-> << >>, routes_mhd |-> << >>, routes_regional |-> << >>,
     trips_mhd |-> << >>, trips_regional |-> << >>, calendar_dates |-> << >>,
     mhd_trip_ids |-> {}]

\* Lines 46-50: the five maps of the source are created empty.
reset_maps(g, source_name) ==
    [g EXCEPT !.agency_map = Put(@, source_name, << >>),
              !.stop_map = Put(@, source_name, << >>),
              !.route_map = Put(@, source_name, << >>),
              !.trip_map = Put(@, source_name, << >>),
              !.service_map = Put(@, source_name, << >>)]

\* _load_agencies, lines 80-92, for the rows from the i-th on
RECURSIVE load_agencies(_, _, _, _)
load_agencies(g, source_name, rows, i) ==
    IF i > Len(rows) THEN g
    ELSE load_agencies(
        [g EXCEPT !.next_agency_id = @ + 1,
                  !.agency_map[source_name] = Put(@, rows[i].agency_id, <<"AG", g.next_agency_id>>),
                  !.agencies = Append(@, [agency_id |-> <<"AG", g.next_agency_id>>,
                                          agency_name |-> rows[i].agency_name])],
        source_name, rows, i + 1)

\* The test of the name left out: every row gets a new stop.
load_stop_undeduplicated(g, source_name, row) ==
    [g EXCEPT !.next_stop_id = @ + 1,
              !.stop_names = Put(@, row.stop_name, <<"ST", g.next_stop_id>>),
              !.stops = Append(@, [stop_id |-> <<"ST", g.next_stop_id>>,
                                   stop_name |-> row.stop_name,
                                   stop_lat |-> row.stop_lat, stop_lon |-> row.stop_lon]),
              !.stop_map[source_name] = Put(@, row.stop_id, <<"ST", g.next_stop_id>>)]

\* _load_stops, lines 105-125: one row
load_stop(g, source_name, row) ==
    IF row.stop_name \in DOMAIN g.stop_names
    THEN [g EXCEPT !.stop_map[source_name] = Put(@, row.stop_id, g.stop_names[row.stop_name])]
    ELSE [g EXCEPT !.next_stop_id = @ + 1,
                   !.stop_names = Put(@, row.stop_name, <<"ST", g.next_stop_id>>),
                   !.stops = Append(@, [stop_id |-> <<"ST", g.next_stop_id>>,
                                        stop_name |-> row.stop_name,
                                        stop_lat |-> row.stop_lat, stop_lon |-> row.stop_lon]),
                   !.stop_map[source_name] = Put(@, row.stop_id, <<"ST", g.next_stop_id>>)]

RECURSIVE load_stops(_, _, _, _)
load_stops(g, source_name, rows, i) ==
    IF i > Len(rows) THEN g
    ELSE load_stops(load_stop(g, source_name, rows[i]), source_name, rows, i + 1)

\* str.isdigit(), for the ASCII characters of the feeds: every character is
\* a digit and there is at least one.
DigitChars == {"0", "1", "2", "3", "4", "5", "6", "7", "8", "9"}
isdigit(s) == s # << >> /\ \A k \in 1..Len(s) : s[k] \in DigitChars

MaxShortName == 3

\* _is_mhd_route, lines 256-275
is_mhd_route(route_name, route_type, route_long_name) ==
    IF route_type \in {"0", "1"} THEN TRUE
    ELSE IF route_type = "2" THEN FALSE
    ELSE IF route_type = "3"
    THEN \/ isdigit(route_name) /\ Len(route_name) <= MaxShortName
         \/ route_name # << >> /\ route_name[1] = "N" /\ Len(route_name) <= MaxShortName
    ELSE FALSE

\* _load_routes, lines 140-170
RECURSIVE load_routes(_, _, _, _)
load_routes(g, source_name, rows, i) ==
    IF i > Len(rows) THEN g
    ELSE LET row == rows[i]
             route_data == [route_id |-> <<"RT", g.next_route_id>>,
                            agency_id |-> Get(g.agency_map[source_name], row.agency_id, EmptyStr),
                            route_short_name |-> row.route_short_name,
                            route_long_name |-> row.route_long_name,
                            route_type |-> row.route_type,
                            is_mhd |-> is_mhd_route(row.route_short_name, row.route_type,
                                                    row.route_long_name)]
             g1 == [g EXCEPT !.next_route_id = @ + 1,
                             !.route_map[source_name] = Put(@, row.route_id, route_data.route_id)]
         IN  load_routes(
                 IF route_data.is_mhd
                 THEN [g1 EXCEPT !.routes_mhd = Append(@, route_data)]
                 ELSE [g1 EXCEPT !.routes_regional = Append(@, route_data)],
                 source_name, rows, i + 1)

\* _load_calendar, lines 180-186
RECURSIVE load_calendar(_, _, _, _)
load_calendar(g, source_name, rows, i) ==
    IF i > Len(rows) THEN g
    ELSE load_calendar(
        [g EXCEPT !.next_service_id = @ + 1,
                  !.service_map[source_name] = Put(@, rows[i].service_id, <<"SV", g.next_service_id>>)],
        source_name, rows, i + 1)

\* _load_calendar_dates, lines 196-211
RECURSIVE load_calendar_dates(_, _, _, _)
load_calendar_dates(g, source_name, rows, i) ==
    IF i > Len(rows) THEN g
    ELSE LET service_old == rows[i].service_id
             service_new == Get(g.service_map[source_name], service_old,
                                <<"SV", g.next_service_id>>)
             g1 == IF service_old \notin DOMAIN g.service_map[source_name]
                   THEN [g EXCEPT !.service_map[source_name] = Put(@, service_old, service_new),
                                  !.next_service_id = @ + 1]
                   ELSE g
         IN  load_calendar_dates(
                 [g1 EXCEPT !.calendar_dates = Append(@, [service_id |-> service_new,
                                                          date |-> rows[i].date])],
                 source_name, rows, i + 1)

\* _load_trips, lines 225-252
RECURSIVE load_trips(_, _, _, _)
load_trips(g, source_name, rows, i) ==
    IF i > Len(rows) THEN g
    ELSE LET row == rows[i]
             new_id == <<"TR", g.next_trip_id>>
             route_new == Get(g.route_map[source_name], row.route_id, EmptyStr)
             trip_data == [trip_id |-> new_id, route_id |-> route_new,
                           service_id |-> Get(g.service_map[source_name], row.service_id,
                                              EmptyStr)]
             is_mhd == \E k \in 1..Len(g.routes_mhd) :
                           g.routes_mhd[k].route_id = route_new /\ g.routes_mhd[k].is_mhd
             g1 == [g EXCEPT !.next_trip_id = @ + 1,
                             !.trip_map[source_name] = Put(@, row.trip_id, new_id)]
         IN  load_trips(
                 IF is_mhd
                 THEN [g1 EXCEPT !.trips_mhd = Append(@, trip_data),
                                 !.mhd_trip_ids = @ \cup {new_id}]
                 ELSE [g1 EXCEPT !.trips_regional = Append(@, trip_data)],
                 source_name, rows, i + 1)

\* A loader on a file that may be missing (if not file_path.exists(): return).
rows_of(file) == IF file.exists THEN file.rows ELSE << >>

\* load_source, lines 42-68
load_source(g, feed) ==
    load_trips(
        load_calendar_dates(
            load_calendar(
                load_routes(
                    load_stops(
                        load_agencies(reset_maps(g, feed.name), feed.name,
                                      rows_of(feed.agency), 1),
                        feed.name, rows_of(feed.stops), 1),
                    feed.name, rows_of(feed.routes), 1),
                feed.name, rows_of(feed.calendar), 1),
            feed.name, rows_of(feed.calendar_dates), 1),
        feed.name, rows_of(feed.trips), 1)

\* _write_csv with the internal flag removed from the routes
clean(routes) ==
    [k \in 1..Len(routes) |->
        [route_id |-> routes[k].route_id, agency_id |-> routes[k].agency_id,
         route_short_name |-> routes[k].route_short_name,
         route_long_name |-> routes[k].route_long_name,
         route_type |-> routes[k].route_type]]

\* export_metadata, lines 345-419: the rows of the files written (headers
\* are not counted as rows); merged/calendar_dates.txt is written only for
\* a non-empty list.  The stop_times.txt files are written empty.
export_metadata(g, fs) ==
    [mhd |-> [agency |-> g.agencies, stops |-> g.stops, routes |-> clean(g.routes_mhd),
              trips |-> g.trips_mhd, stop_times |-> << >>],
     regional |-> [agency |-> g.agencies, stops |-> g.stops,
                   routes |-> clean(g.routes_regional), trips |-> g.trips_regional,
                   stop_times |-> << >>],
     merged |-> [agency |-> g.agencies, stops |-> g.stops,
                 routes |-> clean(g.routes_mhd) \o clean(g.routes_regional),
                 trips |-> g.trips_mhd \o g.trips_regional, stop_times |-> << >>],
     calendar_dates |-> IF g.calendar_dates # << >> THEN g.calendar_dates
                        ELSE fs.calendar_dates]

\* The row written for a stop_times row, lines 319-325
st_data(trip_new, stop_new, row) ==
    [trip_id |-> trip_new, stop_id |-> stop_new, stop_sequence |-> row.stop_sequence]

\* The test of the stop left out: a row of an unmapped stop is written.
process_row_any_stop(g, fs, source_name, row) ==
    LET trip_new == Get(g.trip_map[source_name], row.trip_id, NoneId)
        stop_new == Get(g.stop_map[source_name], row.stop_id, NoneId)
    IN  IF ~Truthy(trip_new) THEN fs
        ELSE IF trip_new \in g.mhd_trip_ids
        THEN [fs EXCEPT !.mhd.stop_times = Append(@, st_data(trip_new, stop_new, row)),
                        !.merged.stop_times = Append(@, st_data(trip_new, stop_new, row))]
        ELSE [fs EXCEPT !.regional.stop_times = Append(@, st_data(trip_new, stop_new, row)),
                        !.merged.stop_times = Append(@, st_data(trip_new, stop_new, row))]

\* process_stop_times, lines 306-336: one row, appended to the open files
process_row(g, fs, source_name, row) ==
    LET trip_new == Get(g.trip_map[source_name], row.trip_id, NoneId)
        stop_new == Get(g.stop_map[source_name], row.stop_id, NoneId)
    IN  IF ~Truthy(trip_new) THEN fs
        ELSE IF ~Truthy(stop_new) THEN fs
        ELSE IF trip_new \in g.mhd_trip_ids
        THEN [fs EXCEPT !.mhd.stop_times = Append(@, st_data(trip_new, stop_new, row)),
                        !.merged.stop_times = Append(@, st_data(trip_new, stop_new, row))]
        ELSE [fs EXCEPT !.regional.stop_times = Append(@, st_data(trip_new, stop_new, row)),
                        !.merged.stop_times = Append(@, st_data(trip_new, stop_new, row))]

RECURSIVE process_rows(_, _, _, _, _)
process_rows(g, fs, source_name, rows, i) ==
    IF i > Len(rows) THEN fs
    ELSE process_rows(g, process_row(g, fs, source_name, rows[i]), source_name, rows, i + 1)

\* process_stop_times, lines 277-343
process_stop_times(g, fs, feed) ==
    IF ~feed.stop_times.exists THEN fs
    ELSE process_rows(g, fs, feed.name, feed.stop_times.rows, 1)

(***************************************************************************)
(* GTFSIntegrator._load_stops of integrate_all_data.py: self.stops is a    *)
(* dict from the name to the row, in insertion order here, and the map has *)
(* the keys f"{source_name}:{old_id}".                                     *)
(***************************************************************************)
NewClassic == [next_stop_id |-> 1, stops |-> << >>, stop_id_map |-> << >>]

\* f"{source_name}:{old_id}"
map_key(source_name, old_id) == source_name \o <<":">> \o old_id

\* lines 101-121: one row
classic_load_stop(c, source_name, row) ==
    IF \E k \in 1..Len(c.stops) : c.stops[k].stop_name = row.stop_name
    THEN [c EXCEPT !.stop_id_map =
              Put(@, map_key(source_name, row.stop_id),
                  c.stops[CHOOSE k \in 1..Len(c.stops) :
                              c.stops[k].stop_name = row.stop_name].stop_id)]
    ELSE [c EXCEPT !.next_stop_id = @ + 1,
                   !.stop_id_map = Put(@, map_key(source_name, row.stop_id),
                                       <<"ST", c.next_stop_id>>),
                   !.stops = Append(@, [stop_id |-> <<"ST", c.next_stop_id>>,
                                        stop_name |-> row.stop_name,
                                        stop_lat |-> row.stop_lat,
                                        stop_lon |-> row.stop_lon])]

RECURSIVE classic_load_stops(_, _, _, _)
classic_load_stops(c, source_name, rows, i) ==
    IF i > Len(rows) THEN c
    ELSE classic_load_stops(classic_load_stop(c, source_name, rows[i]), source_name, rows,
                            i + 1)

(***************************************************************************)
(* The feeds.  main names three sources; those whose directory exists are  *)
(* loaded in this order.  Identifiers are unique within a file, as GTFS    *)
(* requires of a primary key.                                              *)
(***************************************************************************)
TTConverted == <<"T", "T", "-", "c", "o", "n", "v", "e", "r", "t", "e", "d">>
GtfsCr == <<"G", "T", "F", "S", "_", "C", "R">>
Pid == <<"P", "I", "D">>

S1 == <<"s", "1">>
S2 == <<"s", "2">>
S3 == <<"P", "I", "D", ":", "s", "1">>

StopRow(id, name, lat) == [stop_id |-> id, stop_name |-> name, stop_lat |-> lat, stop_lon |-> "14.4"]

\* stops.txt: missing, empty, one or two stops of equal or different names
\* (names differing in case only are different names).
StopTables(lat) ==
    { NoFile, File(<< >>),
      File(<< StopRow(S1, "Hlavni", lat) >>),
      File(<< StopRow(S1, "Hlavni", lat), StopRow(S2, "Hlavni", lat) >>),
      File(<< StopRow(S1, "Hlavni", lat), StopRow(S2, "Nadrazi", lat) >>),
      File(<< StopRow(S1, "Nadrazi", lat), StopRow(S2, "hlavni", lat) >>),
      File(<< StopRow(S3, "Nadrazi", lat), StopRow(S1, "", lat) >>) }

RouteRow(id, type, short) ==
    [route_id |-> id, agency_id |-> <<"a", "1">>, route_type |-> type,
     route_short_name |-> short, route_long_name |-> << >>]

\* routes.txt: a tram, buses of the names '12', '1234', 'N5', 'NOC5', 'X',
\* a train named '7', a trolleybus (type 11) named '1'.
AllRoutes ==
    << RouteRow(<<"r", "1">>, "0", <<"A">>),
       RouteRow(<<"r", "2">>, "3", <<"1", "2">>),
       RouteRow(<<"r", "3">>, "3", <<"1", "2", "3", "4">>),
       RouteRow(<<"r", "4">>, "3", <<"N", "5">>),
       RouteRow(<<"r", "5">>, "3", <<"N", "O", "C", "5">>),
       RouteRow(<<"r", "6">>, "3", <<"X">>),
       RouteRow(<<"r", "7">>, "2", <<"7">>),
       RouteRow(<<"r", "8">>, "11", <<"1">>) >>

TripRow(id, route) == [trip_id |-> id, route_id |-> route, service_id |-> <<"w">>]

\* trips.txt: one trip per route, and one of a route that routes.txt lacks.
DigitStr == <<"1", "2", "3", "4", "5", "6", "7", "8", "9">>

AllTrips ==
    [k \in 1..Len(DigitStr) |-> TripRow(<<"t", DigitStr[k]>>, <<"r", DigitStr[k]>>)]

StopTimeRow(trip, stop, seq) == [trip_id |-> trip, stop_id |-> stop, stop_sequence |-> seq]

\* stop_times.txt: every trip at the stops s1 and s2, a row of a trip that
\* trips.txt lacks, a row of a stop that stops.txt lacks, and the first row
\* once more.
AllStopTimes ==
    [k \in 1..(2 * Len(AllTrips)) |-> StopTimeRow(AllTrips[(k + 1) \div 2].trip_id,
                                 IF k % 2 = 1 THEN S1 ELSE S2, k)]
    \o << StopTimeRow(<<"t", "x">>, S1, 19), StopTimeRow(<<"t", "1">>, <<"s", "x">>, 20),
          StopTimeRow(<<"t", "1">>, S1, 1) >>

\* The tables other than stops.txt: all present, or one of them missing, or
\* only the tram and the train.
Transits ==
    { [routes |-> File(AllRoutes), trips |-> File(AllTrips), stop_times |-> File(AllStopTimes)],
      [routes |-> NoFile, trips |-> File(AllTrips), stop_times |-> File(AllStopTimes)],
      [routes |-> File(AllRoutes), trips |-> NoFile, stop_times |-> File(AllStopTimes)],
      [routes |-> File(AllRoutes), trips |-> File(AllTrips), stop_times |-> NoFile],
      [routes |-> File(SubSeq(AllRoutes, 7, 7) \o SubSeq(AllRoutes, 1, 1)),
       trips |-> File(SubSeq(AllTrips, 1, 1) \o SubSeq(AllTrips, 7, 7)),
       stop_times |-> File(SubSeq(AllStopTimes, 13, 14) \o SubSeq(AllStopTimes, 1, 2))] }

\* In the second source the identifiers of the first name other things:
\* r1 is a train there.
SecondTransit ==
    [routes |-> File(<< RouteRow(<<"r", "1">>, "2", <<"A">>), RouteRow(<<"r", "7">>, "0", <<"7">>) >>),
     trips |-> File(<< TripRow(<<"t", "1">>, <<"r", "1">>), TripRow(<<"t", "7">>, <<"r", "7">>) >>),
     stop_times |-> File(<< StopTimeRow(<<"t", "1">>, S1, 1), StopTimeRow(<<"t", "7">>, S2, 2),
                            StopTimeRow(<<"t", "1">>, S2, 3) >>)]

Feed(name, stop_table, transit) ==
    [name |-> name, stops |-> stop_table,
     agency |-> File(<< [agency_id |-> <<"a", "1">>, agency_name |-> name] >>),
     routes |-> transit.routes,
     calendar |-> File(<< [service_id |-> <<"w">>] >>),
     calendar_dates |-> File(<< [service_id |-> <<"w">>, date |-> "20250101"],
                                [service_id |-> <<"x">>, date |-> "20250102"] >>),
     trips |-> transit.trips, stop_times |-> transit.stop_times]

\* The sources main finds: TT-converted and GTFS_CR, with or without PID.
FeedLists ==
    { << Feed(TTConverted, st1, tr1), Feed(GtfsCr, st2, SecondTransit) >> \o last :
          st1 \in StopTables("50.1"), tr1 \in Transits, st2 \in StopTables("50.2"),
          last \in { << >>,
                     << Feed(Pid, File(<< StopRow(S1, "Hlavni", "50.3") >>), SecondTransit) >> } }

\* The output files before the run: absent, or left by an earlier run.
StaleRow == [trip_id |-> <<"TR", 1>>, stop_id |-> <<"ST", 1>>, stop_sequence |-> 0]

NoFiles ==
    [mhd |-> [agency |-> << >>, stops |-> << >>, routes |-> << >>, trips |-> << >>,
              stop_times |-> << >>],
     regional |-> [agency |-> << >>, stops |-> << >>, routes |-> << >>, trips |-> << >>,
                   stop_times |-> << >>],
     merged |-> [agency |-> << >>, stops |-> << >>, routes |-> << >>, trips |-> << >>,
                 stop_times |-> << >>],
     calendar_dates |-> << >>]

StaleFiles ==
    [NoFiles EXCEPT !.mhd.stop_times = << StaleRow >>, !.merged.stop_times = << StaleRow >>]

\* No merger runs.
NoMerger ==
    /\ feeds = << >>
    /\ integrator = NewIntegrator
    /\ classic = NewClassic
    /\ files = NoFiles
    /\ source_i = 0
    /\ merge_pc = "none"

(***************************************************************************)
(* The files decode() is run on.  A file is laid out as the decoder reads  *)
(* it: a 64-byte header, a stop table at 0x40 (the layout that             *)
(* _extract_stop_candidate accepts), zero padding up to 0x100, and the     *)
(* time words from 0x100.                                                  *)
(***************************************************************************)
LE32(v) == <<v % 256, (v \div 256) % 256, (v \div 65536) % 256, v \div 16777216>>

Zeros(n) == [i \in 1..n |-> 0]

PadTo(bs, n) == bs \o Zeros(n - Len(bs))

\* 'TT TimeTable CHAPS'
GoodHeader == <<84, 84, 32, 84, 105, 109, 101, 84, 97, 98, 108, 101, 32, 67, 72, 65, 80, 83>>
\* 'NOT A TT FILE'
BadHeader == <<78, 79, 84, 32, 65, 32, 84, 84, 32, 70, 73, 76, 69>>

\* total_bytes, item_count, the offsets (bounds of the names in the blob),
\* blob_size twice, the blob.
NameBounds(names, from) ==
    [i \in 1..(Len(names) + 1) |-> from + SumSeq([k \in 1..(i - 1) |-> Len(names[k])])]

StopTableBytes(names) ==
    LET bounds == NameBounds(names, 0)
        blob == Flatten(names)
    IN  LE32(4 * Len(bounds)) \o LE32(Len(bounds))
        \o Flatten([i \in 1..Len(bounds) |-> LE32(bounds[i])])
        \o LE32(Len(blob)) \o LE32(Len(blob)) \o blob

\* A time word: stop_index in byte 0, byte1, minutes in the upper 16 bits.
TimeWord(stop_idx, byte1, minutes) ==
    <<stop_idx, byte1, minutes % 256, minutes \div 256>>

BuildFile(header, names, words) ==
    PadTo(PadTo(header, StopScanStart) \o StopTableBytes(names), TimeScanStart)
    \o Flatten(words)

\* The name stored at stop index 1: a plain name and one name of each kind
\* that is_bad_stop rejects.
Name1Choices ==
    { <<66, 98>>,               \* 'Bb'
      <<32, 0>>,                \* ' \0': empty once stripped
      <<164, 164, 120>>,        \* starts with the doubled currency sign
      <<123, 76, 125>>,         \* '{L}'
      <<120, 123, 108, 125>>,   \* 'x{l}'
      <<42, 65, 66>>,           \* '*AB'
      <<74, 101, 100, 101>>,    \* 'Jede'
      <<65, 46, 83, 46>> }      \* 'A.S.'

\* The names at stop indices 3..6, the stops the fixed words name.
PlainTail == << <<68, 100>>, <<69, 101>>, <<70, 102>>, <<71, 103>> >>
BadTail == << <<97, 46, 115, 46>>, <<42, 88>>, <<106, 101, 100, 101>>, <<123, 76, 125>> >>

\* Ten names; the last is a POI no word names.
StopNames(name1, bad_tail) ==
    << <<65, 97>>, name1, <<67, 99>> >>
    \o (IF bad_tail THEN BadTail ELSE PlainTail)
    \o << <<72, 104>>, <<73, 32, 0>>, <<98, 97, 110, 107, 44>> >>

\* The words that vary: every sequence of at most MaxVar of them is tried.
MaxVar == 3

VarWords ==
    { TimeWord(0, 0, 100), TimeWord(1, 0, 300), TimeWord(0, 0, 300), TimeWord(0, 0, 500) }

RECURSIVE SeqsUpTo(_, _)
SeqsUpTo(S, n) ==
    IF n = 0 THEN { <<>> }
    ELSE LET shorter == SeqsUpTo(S, n - 1)
         IN  shorter \cup { Append(s, x) : s \in { t \in shorter : Len(t) = n - 1 }, x \in S }

\* The fixed words: two runs over stops 3..6, and between them one word of
\* each kind the trip decoder skips.
FixedWords ==
    << TimeWord(3, 0, 480), TimeWord(4, 0, 485), TimeWord(5, 0, 492), TimeWord(6, 0, 500),
       TimeWord(3, 7, 501),
       TimeWord(3, 0, 490), TimeWord(4, 0, 495),
       TimeWord(4, 0, 2000),
       TimeWord(5, 0, 502), TimeWord(6, 0, 510),
       TimeWord(200, 0, 515),
       TimeWord(3, 0, 520), TimeWord(4, 0, 530) >>

\* Files that differ in the header only.  The first three lack one token
\* each; the fourth has 'CHAPS' at offset 58, across the end of the 60 bytes
\* read; the fifth has the byte 0x81, which cp1250 does not define, inside
\* 'TT'; the last two are a good header cut to 65 and to 66 bytes.
HeaderChoices ==
    { <<84, 84, 32, 67, 72, 65, 80, 83>>,                              \* 'TT CHAPS'
      <<84, 105, 109, 101, 84, 97, 98, 108, 101, 32, 67, 72, 65, 80, 83>>,  \* 'TimeTable CHAPS'
      <<84, 84, 32, 84, 105, 109, 101, 84, 97, 98, 108, 101>>,          \* 'TT TimeTable'
      PadTo(<<84, 84, 32, 84, 105, 109, 101, 84, 97, 98, 108, 101>>, 58) \o TokenCHAPS,
      <<84, 129, 84, 32, 84, 105, 109, 101, 84, 97, 98, 108, 101, 32, 67, 72, 65, 80, 83>> }

HeaderFiles ==
    { BuildFile(header, StopNames(<<66, 98>>, FALSE), FixedWords) : header \in HeaderChoices }
    \cup { PadTo(GoodHeader, HeaderMinLen - 1), PadTo(GoodHeader, HeaderMinLen) }

\* Files with one or two stop tables between the header and the time words:
\* gap1 zero bytes, the table of names1, gap2 zero bytes, the table of
\* names2 (none when names2 is empty).
BuildTables(gap1, names1, gap2, names2, words) ==
    PadTo(PadTo(GoodHeader, StopScanStart) \o Zeros(gap1) \o StopTableBytes(names1)
              \o (IF names2 = <<>> THEN <<>> ELSE Zeros(gap2) \o StopTableBytes(names2)),
          TimeScanStart)
    \o Flatten(words)

\* Ten two-letter names from first on: 'Aa', 'Bb', ... for first = 65.
TenNames(first) == [i \in 1..10 |-> <<first + i - 1, 96 + i>>]
\* Ten names with markup, which score under 20: '{a', '{b', ...
MarkupNames == [i \in 1..10 |-> <<123, 96 + i>>]
\* Ten three-letter names, which score above the two-letter ones.
LongerNames == [i \in 1..10 |-> <<64 + i, 96 + i, 120>>]

StopTableFiles ==
    { BuildTables(gap1, t[1], gap2, t[2], FixedWords) :
          gap1 \in {0, 1}, gap2 \in {0, 3},
          t \in { <<MarkupNames, <<>> >>,
                   <<MarkupNames, MarkupNames>>,
                   <<MarkupNames, TenNames(65)>>,
                   <<TenNames(65), MarkupNames>>,
                   <<TenNames(65), TenNames(75)>>,
                   <<TenNames(65), LongerNames>>,
                   <<SubSeq(LongerNames, 1, 9), MarkupNames>>,
                   <<SubSeq(LongerNames, 1, 9), SubSeq(TenNames(65), 1, 9)>> } }

\* Time words that read as a section at two alignments: with minutes under
\* 256 the bytes (stop, 0, minute, 0) of the words, read from two bytes
\* further on, are the words (minute, 0, next stop, 0).
\* The section found second (at 0x102) has the higher combined score.
TwoSectionWords ==
    <<
       TimeWord(6, 0, 9), TimeWord(3, 0, 5), TimeWord(4, 0, 8), TimeWord(6, 0, 1),
       TimeWord(7, 0, 4), TimeWord(6, 0, 7), TimeWord(2, 0, 6), TimeWord(5, 0, 2),
       TimeWord(7, 0, 9), TimeWord(1, 0, 3), TimeWord(6, 0, 6), TimeWord(7, 0, 1) >>

\* The section at 0x102 decodes to one trip of six entries.
ShortTripSectionWords ==
    <<
       TimeWord(4, 0, 8), TimeWord(0, 0, 9), TimeWord(1, 0, 7), TimeWord(1, 0, 7),
       TimeWord(4, 0, 7), TimeWord(4, 0, 6), TimeWord(7, 0, 1), TimeWord(7, 0, 1),
       TimeWord(6, 0, 5), TimeWord(5, 0, 3), TimeWord(4, 0, 2) >>

\* One section, which decodes to one trip of four entries: six of its ten
\* valid words name a stop the table does not have.
OneShortTripWords ==
    <<
       TimeWord(0, 0, 480), TimeWord(1, 0, 485), TimeWord(2, 0, 490), TimeWord(3, 0, 495),
       TimeWord(200, 0, 500), TimeWord(200, 0, 505), TimeWord(200, 0, 510), TimeWord(200, 0, 515),
       TimeWord(200, 0, 520), TimeWord(200, 0, 525) >>

SectionFiles ==
    { BuildFile(GoodHeader, StopNames(<<66, 98>>, FALSE), words) :
          words \in { TwoSectionWords, ShortTripSectionWords, OneShortTripWords } }

\* Ten words the scan counts as valid (four stop bytes, ten minutes) and the
\* trip decoder skips, their stop index being past the ten names: they
\* make a section of whatever words precede them.
FillerWords ==
    << TimeWord(200, 0, 700), TimeWord(201, 0, 705), TimeWord(202, 0, 710),
       TimeWord(203, 0, 715), TimeWord(200, 0, 720), TimeWord(201, 0, 725),
       TimeWord(202, 0, 730), TimeWord(203, 0, 735), TimeWord(200, 0, 740),
       TimeWord(201, 0, 745) >>

\* The words of the streams: two stops at minute 300, and minutes 240 and
\* 241 later.  Every sequence of at most MaxStream of them is tried.
MaxStream == 5

StreamWords ==
    { TimeWord(0, 0, 300), TimeWord(1, 0, 300), TimeWord(2, 0, 540), TimeWord(3, 0, 541) }

\* Streams with no fall of the minute, with a fall, with a jump of 290
\* minutes, with jumps of 240 and of 241 minutes, and with five words of
\* one minute.
RisingStream ==
    << TimeWord(0, 0, 480), TimeWord(1, 0, 485), TimeWord(0, 0, 500), TimeWord(1, 0, 506) >>
FallingStream ==
    << TimeWord(0, 0, 480), TimeWord(1, 0, 485), TimeWord(0, 0, 400), TimeWord(1, 0, 406) >>
JumpStream ==
    << TimeWord(0, 0, 100), TimeWord(1, 0, 110), TimeWord(2, 0, 400), TimeWord(3, 0, 405) >>
BoundaryStream ==
    << TimeWord(0, 0, 300), TimeWord(2, 0, 540), TimeWord(3, 0, 781), TimeWord(4, 0, 790) >>
SameMinuteStream ==
    << TimeWord(0, 0, 300), TimeWord(1, 0, 300), TimeWord(2, 0, 300), TimeWord(3, 0, 300),
       TimeWord(4, 0, 300), TimeWord(5, 0, 305) >>

\* The file whose one time section, at 0x100, holds the stream.
StreamFile(stream) ==
    BuildFile(GoodHeader, StopNames(<<66, 98>>, FALSE), stream \o FillerWords)

StreamFiles ==
    { StreamFile(stream) :
          stream \in SeqsUpTo(StreamWords, MaxStream)
                     \cup { RisingStream, FallingStream, JumpStream, BoundaryStream,
                            SameMinuteStream } }

\* The smallest file one would build by hand: five names 'A'..'E' in the
\* stop table at 0x40, and at 0x104 the four words of one trip, with or
\* without words after them that make the scan record the section.
MinimalNames == << <<65>>, <<66>>, <<67>>, <<68>>, <<69>> >>

MinimalWords ==
    << TimeWord(0, 0, 480), TimeWord(1, 0, 485), TimeWord(2, 0, 492), TimeWord(3, 0, 500) >>

MinimalFiles ==
    { BuildFile(GoodHeader, MinimalNames, << Zeros(4) >> \o MinimalWords \o tail) :
          tail \in { <<>>, FillerWords } }

\* 'UniCredit Bank, pobočka Praha' in cp1250.
UniCreditName ==
    << 85, 110, 105, 67, 114, 101, 100, 105, 116, 32, 66, 97, 110,
       107, 44, 32, 112, 111, 98, 111, 232, 107, 97, 32, 80, 114, 97, 104, 97 >>

\* Files with that name at stop index 1, which the words that vary name or
\* do not name.
PoiFiles ==
    { BuildFile(GoodHeader, StopNames(UniCreditName, FALSE), var \o FixedWords) :
          var \in SeqsUpTo(VarWords, 2) }

\* A stop table given field by field, so that any of them can be wrong.
RawTable(total_bytes, item_count, bounds, size_1, size_2, blob) ==
    LE32(total_bytes) \o LE32(item_count)
    \o Flatten([i \in 1..Len(bounds) |-> LE32(bounds[i])])
    \o LE32(size_1) \o LE32(size_2) \o blob

TenBounds == [i \in 1..11 |-> 2 * (i - 1)]
TenBlob == Flatten(TenNames(65))

\* Tables with one thing wrong each: total_bytes is not 4 * item_count; one
\* item; 20001 items; an offset that decreases; two different blob sizes; a
\* last offset short of the blob size; an empty blob.
MalformedTables ==
    { RawTable(40, 11, TenBounds, 20, 20, TenBlob),
      RawTable(4, 1, << 20 >>, 20, 20, TenBlob),
      RawTable(80004, 20001, TenBounds, 20, 20, TenBlob),
      RawTable(44, 11, [TenBounds EXCEPT ![2] = 4, ![3] = 2], 20, 20, TenBlob),
      RawTable(44, 11, TenBounds, 20, 21, TenBlob),
      RawTable(44, 11, TenBounds, 22, 22, TenBlob \o << 120, 120 >>),
      RawTable(44, 11, [i \in 1..11 |-> 0], 0, 0, << >>) }

\* The lengths at which the table of ten names (80 bytes) is cut: inside its
\* two counts, inside its offsets, before, inside and after its blob sizes,
\* inside its blob, one byte short, and whole.
TableCuts == { 4, 8, 12, 52, 56, 60, 70, 79, 80 }

\* Files with a malformed table at 0x40 and a good one after it, and files
\* that end in a table cut short.
MalformedFiles ==
    { PadTo(PadTo(GoodHeader, StopScanStart) \o table \o StopTableBytes(LongerNames),
            TimeScanStart) \o Flatten(FixedWords) : table \in MalformedTables }
    \cup
    { BuildFile(GoodHeader, StopNames(<<66, 98>>, FALSE), FixedWords)
          \o SubSeq(StopTableBytes(TenNames(75)), 1, cut) : cut \in TableCuts }

\* Words the trip decoder accepts and words it skips, one of each kind
\* (byte1 not 0, a minute over 1440, a stop index past the table).  Every
\* sequence of at most MaxMixed of them is tried.
MaxMixed == 4

MixedWords ==
    { TimeWord(0, 0, 300), TimeWord(1, 0, 300), TimeWord(2, 0, 541),
      TimeWord(1, 7, 300), TimeWord(1, 0, 1500), TimeWord(200, 0, 300) }

\* Two accepted words with one skipped word of each kind between them.
SkippedRunStream ==
    << TimeWord(0, 0, 300), TimeWord(1, 7, 300), TimeWord(1, 0, 1500), TimeWord(200, 0, 300),
       TimeWord(1, 0, 305) >>

MixedFiles ==
    { StreamFile(stream) : stream \in SeqsUpTo(MixedWords, MaxMixed) \cup { SkippedRunStream } }

\* n_valid valid words that show n_times minutes and n_stops stops.
ScanWords(n_valid, n_times, n_stops) ==
    [i \in 1..n_valid |-> TimeWord((i - 1) % n_stops, 0, 400 + ((i - 1) % n_times))]

\* Words the scan does not count: byte1 is 1.
InvalidWords(n) == [i \in 1..n |-> TimeWord(0, 1, 0)]

\* Files whose words at 0x100 are at and next to the three thresholds of the
\* scan, with more than the 30 words of a probe, and with a second run of
\* words at 0x500, of a higher score, of the same score, and starting on the
\* last byte of the file.
ScanFiles ==
    { BuildFile(GoodHeader, StopNames(<<66, 98>>, FALSE), words) :
          words \in { ScanWords(10, 6, 4), ScanWords(9, 6, 4), ScanWords(10, 5, 4),
                      ScanWords(10, 6, 3), ScanWords(12, 6, 4), ScanWords(31, 31, 10),
                      ScanWords(10, 6, 4) \o InvalidWords(246) \o ScanWords(12, 7, 5),
                      ScanWords(10, 6, 4) \o InvalidWords(246) \o ScanWords(10, 6, 4),
                      ScanWords(10, 6, 4) \o InvalidWords(246) \o << << 0 >> >> } }

\* A stop table of more names than a byte can index: WideCount names of two
\* letters, those at the indices of bad replaced by '{L}', and the time
\* section at 0x900, past the table.  Its eleven words name the stops 0..3
\* and 255; one of them has byte1 = 1, which with the low byte would read as
\* index 257.
WideCount == 260

WideNames(bad) ==
    [i \in 1..WideCount |->
        IF (i - 1) \in bad THEN <<123, 76, 125>>
        ELSE <<65 + ((i - 1) % 26), 97 + ((i - 1) \div 26)>>]

WideWords ==
    << TimeWord(0, 0, 480), TimeWord(1, 0, 485), TimeWord(2, 0, 490),
       TimeWord(3, 0, 495), TimeWord(255, 0, 500), TimeWord(1, 1, 505),
       TimeWord(0, 0, 510), TimeWord(1, 0, 515), TimeWord(2, 0, 520),
       TimeWord(3, 0, 525), TimeWord(255, 0, 530) >>

WideFiles ==
    { PadTo(PadTo(GoodHeader, StopScanStart) \o StopTableBytes(WideNames(bad)),
            TimeScanStart + 2 * TimeScanStride)
      \o Flatten(WideWords) :
          bad \in { {}, {255}, {0, 1, 2, 3, 255} } }

Files ==
    \* decodable files
    { BuildFile(GoodHeader, StopNames(name1, bad_tail), var \o FixedWords) :
          name1 \in Name1Choices, bad_tail \in BOOLEAN, var \in SeqsUpTo(VarWords, MaxVar) }
    \cup
    \* a wrong header; nine names only; no time section
    { BuildFile(BadHeader, StopNames(<<66, 98>>, FALSE), FixedWords),
      BuildFile(GoodHeader, SubSeq(StopNames(<<66, 98>>, FALSE), 1, 9), FixedWords),
      BuildFile(GoodHeader, StopNames(<<66, 98>>, FALSE), << TimeWord(0, 0, 100) >>) }
    \cup HeaderFiles
    \cup StopTableFiles
    \cup SectionFiles
    \cup StreamFiles
    \cup MinimalFiles
    \cup PoiFiles
    \cup MalformedFiles
    \cup MixedFiles
    \cup ScanFiles
    \cup WideFiles

(***************************************************************************)
(* decode(): one action per statement, and one per iteration of the loops  *)
(* over the sections, the time words and the trips.                        *)
(***************************************************************************)
\* No command line: decode() is called on a decoder built from the file.
NoTarget == [kind |-> "none", entries |-> <<>>]

NoDriver ==
    /\ argv = <<>>
    /\ target = NoTarget
    /\ tt_files = <<>>
    /\ file_i = 0
    /\ success_count = 0 /\ total_stops = 0 /\ total_trips = 0 /\ total_edges = 0
    /\ output = <<>>
    /\ exported = <<>>
    /\ exit_code = NoneInt
    /\ cli_pc = "none"

Init ==
    /\ data \in Files
    /\ stops = <<>>
    /\ p_records = <<>>
    /\ trips = <<>>
    /\ edges = <<>>
    /\ best_stop_offset = NoneInt
    /\ best_time_offset = NoneInt
    /\ stop_quality_score = Rational(0, 1)
    /\ sections = <<>>
    /\ section_i = 0
    /\ best_trips = NoBestTrips
    /\ cur_offset = NoneInt
    /\ dec = DecodeStart
    /\ trip_i = 0
    /\ pc = "verify_header"
    /\ ret = "running"
    /\ NoDriver
    /\ NoMerger

VerifyHeader ==
    /\ pc = "verify_header"
    /\ IF verify_header(data)
       THEN pc' = "find_stops" /\ ret' = ret
       ELSE pc' = "returned" /\ ret' = "False"
    /\ UNCHANGED <<data, fields, locals>>
    /\ UNCHANGED <<driver, merger>>

FindStops ==
    /\ pc = "find_stops"
    /\ \E found \in { find_stops(data) } :
           IF found.ok
           THEN /\ stops' = found.stops
                /\ best_stop_offset' = found.offset
                /\ stop_quality_score' = found.score
                /\ pc' = "find_p_records" /\ ret' = ret
           ELSE /\ pc' = "returned" /\ ret' = "False"
                /\ UNCHANGED <<stops, best_stop_offset, stop_quality_score>>
    /\ UNCHANGED <<data, p_records, trips, edges, best_time_offset, locals>>
    /\ UNCHANGED <<driver, merger>>

FindPRecords ==
    /\ pc = "find_p_records"
    /\ p_records' = find_p_records(data)
    /\ pc' = "find_time_sections"
    /\ UNCHANGED <<data, stops, trips, edges, best_stop_offset, best_time_offset,
                   stop_quality_score, locals, ret>>
    /\ UNCHANGED <<driver, merger>>

\* _decode_time_records_smart, lines 422-430: the sections, or the return
\* of False when there is none.
FindTimeSections ==
    /\ pc = "find_time_sections"
    /\ \E found \in { find_time_sections(data) } :
           IF found = <<>>
           THEN /\ pc' = "returned" /\ ret' = "False"
                /\ UNCHANGED <<sections, section_i, best_trips>>
           ELSE /\ sections' = top_sections(found)
                /\ section_i' = 1
                /\ best_trips' = NoBestTrips
                /\ pc' = "next_section" /\ ret' = ret
    /\ UNCHANGED <<data, fields, cur_offset, dec, trip_i>>
    /\ UNCHANGED <<driver, merger>>

\* Line 433-435 and 469-476: the loop over the sections takes the next one
\* and _decode_from_offset starts at its offset.
NextSection ==
    /\ pc = "next_section"
    /\ section_i <= Len(sections)
    /\ cur_offset' = sections[section_i].offset
    /\ dec' = DecodeStart
    /\ pc' = "decode_word"
    /\ UNCHANGED <<data, fields, sections, section_i, best_trips, trip_i, ret>>
    /\ UNCHANGED <<driver, merger>>

\* Lines 476-526: one iteration of the loop of _decode_from_offset.
DecodeWord ==
    /\ pc = "decode_word"
    /\ cur_offset < decode_end(data, sections[section_i].offset) - 3
    /\ dec' = decode_word(data, Len(stops), dec, cur_offset)
    /\ cur_offset' = cur_offset + 4
    /\ UNCHANGED <<data, fields, sections, section_i, best_trips, trip_i, pc, ret>>
    /\ UNCHANGED <<driver, merger>>

\* Lines 528-531 and 436-451: _decode_from_offset returns its trips and the
\* loop over the sections weighs them against the best so far.
EndSection ==
    /\ pc = "decode_word"
    /\ ~(cur_offset < decode_end(data, sections[section_i].offset) - 3)
    /\ best_trips' = consider_section(best_trips, sections[section_i], flush_trip(dec))
    /\ section_i' = section_i + 1
    /\ pc' = "next_section"
    /\ UNCHANGED <<data, fields, sections, cur_offset, dec, trip_i, ret>>
    /\ UNCHANGED <<driver, merger>>

\* Lines 453-465: after the last section.
SelectTrips ==
    /\ pc = "next_section"
    /\ section_i > Len(sections)
    /\ \E selected \in { select_trips(best_trips) } :
           IF selected.ok
           THEN /\ trips' = selected.trips
                /\ best_time_offset' = selected.offset
                /\ pc' = "filter_stops" /\ ret' = ret
           ELSE /\ pc' = "returned" /\ ret' = "False"
                /\ UNCHANGED <<trips, best_time_offset>>
    /\ UNCHANGED <<data, stops, p_records, edges, best_stop_offset, stop_quality_score,
                   locals>>
    /\ UNCHANGED <<driver, merger>>

FilterStops ==
    /\ pc = "filter_stops"
    /\ \E f \in { filter_stops(stops, trips, edges) } :
           stops' = f.stops /\ trips' = f.trips /\ edges' = f.edges
    /\ trip_i' = 1
    /\ pc' = "extract_edges"
    /\ UNCHANGED <<data, p_records, best_stop_offset, best_time_offset,
                   stop_quality_score, sections, section_i, best_trips, cur_offset, dec, ret>>
    /\ UNCHANGED <<driver, merger>>

\* _extract_edges: one iteration of the loop over the trips.
ExtractEdges ==
    /\ pc = "extract_edges"
    /\ trip_i <= Len(trips)
    /\ edges' = edges_of_trip(edges, trips[trip_i], 1)
    /\ trip_i' = trip_i + 1
    /\ UNCHANGED <<data, stops, p_records, trips, best_stop_offset, best_time_offset,
                   stop_quality_score, sections, section_i, best_trips, cur_offset, dec, pc, ret>>
    /\ UNCHANGED <<driver, merger>>

\* decode() returns True after the last trip.
ReturnTrue ==
    /\ pc = "extract_edges"
    /\ trip_i > Len(trips)
    /\ pc' = "returned" /\ ret' = "True"
    /\ UNCHANGED <<data, fields, locals>>
    /\ UNCHANGED <<driver, merger>>

Next ==
    \/ VerifyHeader
    \/ FindStops
    \/ FindPRecords
    \/ FindTimeSections
    \/ NextSection
    \/ DecodeWord
    \/ EndSection
    \/ SelectTrips
    \/ FilterStops
    \/ ExtractEdges
    \/ ReturnTrue

Spec == Init /\ [][Next]_vars

(***************************************************************************)
(* main and batch_decode.  The process is started with the arguments argv  *)
(* and a file system in which the path argument names target; the decoder  *)
(* of each file runs by the actions above.  output holds what main and     *)
(* batch_decode print, one element for each call of print; the DEBUG lines *)
(* the decoder prints in single-file mode are not in it.  Writing the JSON *)
(* files is taken to succeed.                                              *)
(***************************************************************************)
BatchFlag == "--batch"
PathArg == "path"

\* A directory entry '*.tt' that read_bytes() cannot read (a directory of
\* that name, a file without read permission): the call raises OSError.
Unreadable == << NoneInt >>

\* The entries of the directories: two files that decode, with different
\* counts, a file with a wrong header, a file with nine names, and an entry
\* that cannot be read.
DecodableFile == BuildFile(GoodHeader, StopNames(<<66, 98>>, FALSE), FixedWords)
LargerFile ==
    BuildFile(GoodHeader, StopNames(<<66, 98>>, FALSE),
              << TimeWord(0, 0, 100), TimeWord(1, 0, 300), TimeWord(0, 0, 500) >> \o FixedWords)
WrongHeaderFile == BuildFile(BadHeader, StopNames(<<66, 98>>, FALSE), FixedWords)
NineNamesFile ==
    BuildFile(GoodHeader, SubSeq(StopNames(<<66, 98>>, FALSE), 1, 9), FixedWords)

BatchEntries == { DecodableFile, LargerFile, WrongHeaderFile, NineNamesFile, Unreadable }

\* The longest directory listing.
MaxBatch == 2

\* What the path can name: nothing, a directory that cannot be listed, a
\* directory with its '*.tt' entries in the order of their names, a file.
Targets ==
    { [kind |-> "missing", entries |-> <<>>], [kind |-> "locked_dir", entries |-> <<>>] }
    \cup { [kind |-> "dir", entries |-> listing] : listing \in SeqsUpTo(BatchEntries, MaxBatch) }
    \cup { [kind |-> "file", entries |-> << entry >>] : entry \in BatchEntries }

Invocations ==
    { << >>, << BatchFlag >>, << BatchFlag, PathArg >>, << PathArg >> }

\* One call of print: which one, the file it is about (0 when none), and
\* the numbers it shows.
Line(kind, file, a, b, c) == [kind |-> kind, file |-> file, a |-> a, b |-> b, c |-> c]

\* sorted(data_dir.glob('*.tt')): nothing for a path that is no directory or
\* cannot be listed.
glob_tt(t) == IF t.kind = "dir" THEN t.entries ELSE <<>>

\* tt_file.exists()
exists(t) == t.kind # "missing"

\* filepath.read_bytes() succeeds.
readable(t) == t.kind = "file" /\ t.entries[1] # Unreadable

\* get_stats(): the counts the reports show.
get_stats(ss, ts, es) == [stops |-> Len(ss), trips |-> Len(ts), edges |-> Len(es)]

InitCli ==
    /\ argv \in Invocations
    /\ target \in Targets
    /\ (Len(argv) = 0 \/ argv[Len(argv)] # PathArg) => target.kind = "missing"
    /\ data = <<>>
    /\ stops = <<>> /\ p_records = <<>> /\ trips = <<>> /\ edges = <<>>
    /\ best_stop_offset = NoneInt /\ best_time_offset = NoneInt
    /\ stop_quality_score = Rational(0, 1)
    /\ sections = <<>> /\ section_i = 0 /\ best_trips = NoBestTrips
    /\ cur_offset = NoneInt /\ dec = DecodeStart /\ trip_i = 0
    /\ pc = "none" /\ ret = "running"
    /\ tt_files = <<>> /\ file_i = 0
    /\ success_count = 0 /\ total_stops = 0 /\ total_trips = 0 /\ total_edges = 0
    /\ output = <<>>
    /\ exported = <<>>
    /\ exit_code = NoneInt
    /\ cli_pc = "main"
    /\ NoMerger

\* TTDecoderV2(filepath): the fields of a new decoder on the bytes.
NewDecoder(bytes) ==
    /\ data' = bytes
    /\ stops' = <<>> /\ p_records' = <<>> /\ trips' = <<>> /\ edges' = <<>>
    /\ best_stop_offset' = NoneInt /\ best_time_offset' = NoneInt
    /\ stop_quality_score' = Rational(0, 1)
    /\ sections' = <<>> /\ section_i' = 0 /\ best_trips' = NoBestTrips
    /\ cur_offset' = NoneInt /\ dec' = DecodeStart /\ trip_i' = 0
    /\ pc' = "verify_header" /\ ret' = "running"

\* The process ends: sys.exit(code), the return of main (code 0), or an
\* exception nothing catches (code 1, after the traceback).
Exit(code, lines) ==
    /\ output' = output \o lines
    /\ exit_code' = code
    /\ cli_pc' = "exited"

\* main, lines 710-735, and batch_decode, lines 669-684, up to the first
\* decoder or the exit.
Main ==
    /\ cli_pc = "main"
    /\ IF Len(argv) < 1
       THEN /\ Exit(1, << Line("usage", 0, 0, 0, 0), Line("usage_file", 0, 0, 0, 0),
                          Line("usage_batch", 0, 0, 0, 0) >>)
            /\ UNCHANGED <<data, fields, locals, pc, ret, tt_files, file_i>>
       ELSE IF argv[1] = BatchFlag
       THEN IF Len(argv) < 2
            THEN /\ Exit(1, << Line("missing_dir", 0, 0, 0, 0) >>)
                 /\ UNCHANGED <<data, fields, locals, pc, ret, tt_files, file_i>>
            ELSE IF glob_tt(target) = <<>>
            THEN /\ tt_files' = <<>>
                 /\ Exit(0, << Line("no_tt_files", 0, 0, 0, 0) >>)
                 /\ UNCHANGED <<data, fields, locals, pc, ret, file_i>>
            ELSE /\ tt_files' = glob_tt(target)
                 /\ file_i' = 1
                 /\ output' = Append(output, Line("decoding", 0, Len(glob_tt(target)), 0, 0))
                 /\ cli_pc' = "batch_next"
                 /\ UNCHANGED <<data, fields, locals, pc, ret, exit_code>>
       ELSE IF ~exists(target)
       THEN /\ Exit(1, << Line("not_found", 0, 0, 0, 0) >>)
            /\ UNCHANGED <<data, fields, locals, pc, ret, tt_files, file_i>>
       ELSE IF ~readable(target)
       THEN /\ Exit(1, << Line("traceback", 0, 0, 0, 0) >>)
            /\ UNCHANGED <<data, fields, locals, pc, ret, tt_files, file_i>>
       ELSE /\ NewDecoder(target.entries[1])
            /\ cli_pc' = "single_decoding"
            /\ UNCHANGED <<tt_files, file_i, output, exit_code>>
    /\ UNCHANGED <<argv, target, success_count, total_stops, total_trips, total_edges,
                   exported>>
    /\ UNCHANGED merger

\* Lines 686-687: the loop takes the next file and builds its decoder.
BatchNext ==
    /\ cli_pc = "batch_next"
    /\ file_i <= Len(tt_files)
    /\ IF tt_files[file_i] = Unreadable
       THEN /\ Exit(1, << Line("traceback", file_i, 0, 0, 0) >>)
            /\ UNCHANGED <<data, fields, locals, pc, ret>>
       ELSE /\ NewDecoder(tt_files[file_i])
            /\ cli_pc' = "batch_decoding"
            /\ UNCHANGED <<output, exit_code>>
    /\ UNCHANGED <<argv, target, tt_files, file_i, success_count, total_stops, total_trips,
                   total_edges, exported>>
    /\ UNCHANGED merger

\* Lines 689-700: decode() has returned; a file that decoded is exported,
\* reported and counted, and the loop goes on.
BatchReport ==
    /\ cli_pc = "batch_decoding"
    /\ pc = "returned"
    /\ IF ret = "True"
       THEN \E stats \in { get_stats(stops, trips, edges) } :
                /\ output' = Append(output,
                       Line("summary", file_i, stats.stops, stats.trips, stats.edges))
                /\ success_count' = success_count + 1
                /\ total_stops' = total_stops + stats.stops
                /\ total_trips' = total_trips + stats.trips
                /\ total_edges' = total_edges + stats.edges
                /\ exported' = Append(exported, export_json(stops, edges))
       ELSE UNCHANGED <<output, success_count, total_stops, total_trips, total_edges,
                        exported>>
    /\ file_i' = file_i + 1
    /\ cli_pc' = "batch_next"
    /\ pc' = "none"
    /\ UNCHANGED <<data, fields, locals, ret, argv, target, tt_files, exit_code>>
    /\ UNCHANGED merger

\* Lines 702-707: after the last file, the totals; batch_decode and main
\* return.
BatchEnd ==
    /\ cli_pc = "batch_next"
    /\ file_i > Len(tt_files)
    /\ Exit(0, << Line("rule", 0, 0, 0, 0),
                  Line("success", 0, success_count, Len(tt_files),
                       (100 * success_count) \div Len(tt_files)),
                  Line("total_stops", 0, total_stops, 0, 0),
                  Line("total_trips", 0, total_trips, 0, 0),
                  Line("total_edges", 0, total_edges, 0, 0),
                  Line("exported_to", 0, 0, 0, 0) >>)
    /\ UNCHANGED <<data, fields, locals, pc, ret, argv, target, tt_files, file_i,
                   success_count, total_stops, total_trips, total_edges, exported>>
    /\ UNCHANGED merger

\* Lines 735-749: the one file has been decoded and is reported, or the
\* process exits with 1.
SingleReport ==
    /\ cli_pc = "single_decoding"
    /\ pc = "returned"
    /\ IF ret = "True"
       THEN \E stats \in { get_stats(stops, trips, edges) } :
                /\ exported' = Append(exported, export_json(stops, edges))
                /\ Exit(0, << Line("decoded", 0, 0, 0, 0),
                           Line("stops", 0, stats.stops, 0, 0),
                           Line("trips", 0, stats.trips, 0, 0),
                           Line("edges", 0, stats.edges, 0, 0),
                           Line("exported", 0, 0, 0, 0) >>)
       ELSE Exit(1, << >>) /\ exported' = exported
    /\ pc' = "none"
    /\ UNCHANGED <<data, fields, locals, ret, argv, target, tt_files, file_i,
                   success_count, total_stops, total_trips, total_edges>>
    /\ UNCHANGED merger

NextCli ==
    \/ Main
    \/ BatchNext
    \/ BatchReport
    \/ BatchEnd
    \/ SingleReport
    \/ VerifyHeader
    \/ FindStops
    \/ FindPRecords
    \/ FindTimeSections
    \/ NextSection
    \/ DecodeWord
    \/ EndSection
    \/ SelectTrips
    \/ FilterStops
    \/ ExtractEdges
    \/ ReturnTrue

SpecCli == InitCli /\ [][NextCli]_vars

(***************************************************************************)
(* main of integrate_all_data_fast.py: load_source for every source found, *)
(* export_metadata, then process_stop_times for every source; and the loop *)
(* of main of integrate_all_data.py, of which the stop loader is modelled. *)
(***************************************************************************)
InitMerge ==
    /\ feeds \in FeedLists
    /\ integrator = NewIntegrator
    /\ classic = NewClassic
    /\ files \in { NoFiles, StaleFiles }
    /\ source_i = 1
    /\ merge_pc \in { "load", "classic_load" }
    /\ merge_pc = "classic_load" =>
           /\ files = NoFiles
           /\ feeds[1].routes = File(AllRoutes) /\ feeds[1].trips = File(AllTrips)
           /\ feeds[1].stop_times = File(AllStopTimes)
    /\ data = <<>>
    /\ stops = <<>> /\ p_records = <<>> /\ trips = <<>> /\ edges = <<>>
    /\ best_stop_offset = NoneInt /\ best_time_offset = NoneInt
    /\ stop_quality_score = Rational(0, 1)
    /\ sections = <<>> /\ section_i = 0 /\ best_trips = NoBestTrips
    /\ cur_offset = NoneInt /\ dec = DecodeStart /\ trip_i = 0
    /\ pc = "none" /\ ret = "running"
    /\ NoDriver

\* main, lines 448-458: integrator.load_source for the next source
LoadSource ==
    /\ merge_pc = "load"
    /\ source_i <= Len(feeds)
    /\ integrator' = load_source(integrator, feeds[source_i])
    /\ source_i' = source_i + 1
    /\ UNCHANGED <<feeds, classic, files, merge_pc>>
    /\ UNCHANGED <<data, fields, locals, pc, ret, driver>>

\* main, line 461: integrator.export_metadata
ExportMetadata ==
    /\ merge_pc = "load"
    /\ source_i > Len(feeds)
    /\ files' = export_metadata(integrator, files)
    /\ merge_pc' = "process"
    /\ source_i' = 1
    /\ UNCHANGED <<feeds, integrator, classic>>
    /\ UNCHANGED <<data, fields, locals, pc, ret, driver>>

\* main, lines 468-469: integrator.process_stop_times for the next source
ProcessStopTimes ==
    /\ merge_pc = "process"
    /\ source_i <= Len(feeds)
    /\ files' = process_stop_times(integrator, files, feeds[source_i])
    /\ source_i' = source_i + 1
    /\ UNCHANGED <<feeds, integrator, classic, merge_pc>>
    /\ UNCHANGED <<data, fields, locals, pc, ret, driver>>

\* GTFSIntegrator._load_stops for the next source
ClassicLoadStops ==
    /\ merge_pc = "classic_load"
    /\ source_i <= Len(feeds)
    /\ classic' = classic_load_stops(classic, feeds[source_i].name,
                                     rows_of(feeds[source_i].stops), 1)
    /\ source_i' = source_i + 1
    /\ UNCHANGED <<feeds, integrator, files, merge_pc>>
    /\ UNCHANGED <<data, fields, locals, pc, ret, driver>>

NextMerge ==
    \/ LoadSource
    \/ ExportMetadata
    \/ ProcessStopTimes
    \/ ClassicLoadStops

SpecMerge == InitMerge /\ [][NextMerge]_vars

(***************************************************************************)
(* The contract of a successful decode.                                    *)
(***************************************************************************)
\* decode() has returned True.
Succeeded == pc = "returned" /\ ret = "True"

\* The positions <<t, i>> of the adjacent pairs (ts[t][i], ts[t][i + 1]).
AdjacentPairs(ts) ==
    UNION { { <<t, i>> : i \in 1..(Len(ts[t]) - 1) } : t \in 1..Len(ts) }

PairStops(ts, p) == <<ts[p[1]][p[2]][1], ts[p[1]][p[2] + 1][1]>>

PairTime(ts, p) == ts[p[1]][p[2] + 1][2] - ts[p[1]][p[2]][2]

\* The stops and trips the scrubber was given: the finder's list and the
\* trips of the best section.
ScrubberKept ==
    kept_indices(find_stops(data).stops, referenced_indices(best_trips.trips))

\* C1: after a successful decode every entry of every trip has
\* 0 <= stop_index < |stops|, the final stop list, and 0 <= minute <= 1440.
C1_EntriesInRange ==
    Succeeded =>
        \A t \in 1..Len(trips) : \A i \in 1..Len(trips[t]) :
            /\ 0 <= trips[t][i][1] /\ trips[t][i][1] < Len(stops)
            /\ 0 <= trips[t][i][2] /\ trips[t][i][2] <= 1440

\* A successful decode whose scrubber re-indexed the trips, the last stop of
\* the final list in use.
C1_ReindexedTrips ==
    /\ Succeeded
    /\ trips # best_trips.trips
    /\ \E t \in 1..Len(trips) : \E i \in 1..Len(trips[t]) :
           trips[t][i][1] = Len(stops) - 1

\* C2: after a successful decode every trip has at least 2 entries and at
\* least 2 distinct stop indices.
C2_TwoEntriesTwoStops ==
    Succeeded =>
        \A t \in 1..Len(trips) :
            Len(trips[t]) >= 2 /\ Cardinality(StopsOf(trips[t])) >= 2

\* A successful decode with a trip that stays at one stop.
C2_OneStopTrip ==
    Succeeded /\ \E t \in 1..Len(trips) : Cardinality(StopsOf(trips[t])) = 1

\* C3: in the final trips of a successful decode the minute never decreases
\* from an entry to the next.
C3_MinutesNeverDecrease ==
    Succeeded => \A p \in AdjacentPairs(trips) : PairTime(trips, p) >= 0

\* A successful decode that split a trip where the time dropped, the
\* scrubber having removed entries, with two neighbours at the same minute.
C3_SplitAndScrubbed ==
    /\ Succeeded
    /\ Len(trips) >= 2
    /\ \E t \in 1..Len(trips) : \E u \in 1..Len(best_trips.trips) :
           Len(trips[t]) >= 2 /\ Len(trips[t]) < Len(best_trips.trips[u])
    /\ \E p \in AdjacentPairs(trips) : PairTime(trips, p) = 0

\* C4: in the final trips of a successful decode the minute increases by at
\* most 240 from an entry to the next.
C4_StepAtMost240 ==
    Succeeded => \A p \in AdjacentPairs(trips) : PairTime(trips, p) <= 240

\* A successful decode with a step of more than 240 minutes inside a trip.
C4_WideStep ==
    Succeeded /\ \E p \in AdjacentPairs(trips) : PairTime(trips, p) > 240

\* C5: no final trip of a successful decode has two adjacent entries with
\* the same stop index and the same minute.
C5_NoAdjacentRepeat ==
    Succeeded =>
        \A p \in AdjacentPairs(trips) : trips[p[1]][p[2]] # trips[p[1]][p[2] + 1]

\* A successful decode with an entry repeated next to itself.
C5_AdjacentRepeat ==
    Succeeded /\ \E p \in AdjacentPairs(trips) : trips[p[1]][p[2]] = trips[p[1]][p[2] + 1]

\* The adjacent pairs that give a sample: two different stops, 1 to 60
\* minutes apart.
SamplePairs(ts) ==
    { p \in AdjacentPairs(ts) :
        /\ PairStops(ts, p)[1] # PairStops(ts, p)[2]
        /\ PairTime(ts, p) >= 1 /\ PairTime(ts, p) <= 60 }

\* p comes no later than q, trip by trip and pair by pair.
NoLater(p, q) == p[1] < q[1] \/ (p[1] = q[1] /\ p[2] <= q[2])

\* The n-th pair of ps in that order.
NthPair(ps, n) == CHOOSE p \in ps : Cardinality({ q \in ps : NoLater(q, p) }) = n

\* The travel times of the sample pairs between the two stops of key, in order.
SamplesOf(ts, key) ==
    [n \in 1..Cardinality({ p \in SamplePairs(ts) : PairStops(ts, p) = key }) |->
        PairTime(ts, NthPair({ p \in SamplePairs(ts) : PairStops(ts, p) = key }, n))]

\* C6: after a successful decode the edge map is the extraction over the
\* final trips: its keys are exactly the stop pairs of the adjacent entries
\* with different stops and 1 to 60 minutes between them, each key once,
\* each key's samples exactly those differences in order, so a # b and every
\* sample is in 1..60; extracting again from the trips gives the same map.
C6_EdgesAreTheExtraction ==
    Succeeded =>
        /\ { edges[i].key : i \in 1..Len(edges) }
               = { PairStops(trips, p) : p \in SamplePairs(trips) }
        /\ \A i, j \in 1..Len(edges) : edges[i].key = edges[j].key => i = j
        /\ \A i \in 1..Len(edges) :
               /\ edges[i].times = SamplesOf(trips, edges[i].key)
               /\ edges[i].key[1] # edges[i].key[2]
               /\ \A n \in 1..Len(edges[i].times) :
                      edges[i].times[n] >= 1 /\ edges[i].times[n] <= 60
        /\ extract_edges(<<>>, trips, 1) = edges

\* A successful decode with an edge of several samples, a pair too far apart
\* in time to give a sample, and a pair that stays at one stop.
C6_SamplesAndSkippedPairs ==
    /\ Succeeded
    /\ \E i \in 1..Len(edges) : Len(edges[i].times) >= 2
    /\ \E p \in AdjacentPairs(trips) : PairTime(trips, p) > 60
    /\ \E p \in AdjacentPairs(trips) : PairStops(trips, p)[1] = PairStops(trips, p)[2]

\* C7: after a successful decode every stop of the final stop list is
\* referenced by an entry of some final trip.
C7_EveryStopReferenced ==
    Succeeded =>
        \A stop_idx \in 0..(Len(stops) - 1) : stop_idx \in referenced_indices(trips)

\* A successful decode whose scrubber rebuilt the stop list and left in it a
\* stop no final trip names.
C7_UnreferencedStopKept ==
    /\ Succeeded
    /\ ScrubberKept # <<>>
    /\ \E stop_idx \in 0..(Len(stops) - 1) : stop_idx \notin referenced_indices(trips)

\* C8 as stated: after a successful decode no name of the final stop list
\* matches a bad pattern of the scrubber.
C8_NoBadName ==
    Succeeded => \A i \in 1..Len(stops) : ~is_bad_stop(stops[i])

\* C8, amended: after a successful decode in which the scrubber was not
\* skipped (some stop a trip references matches no bad pattern), no name of
\* the final stop list matches a bad pattern.
C8_NoBadNameUnlessSkipped ==
    (Succeeded /\ ScrubberKept # <<>>) =>
        \A i \in 1..Len(stops) : ~is_bad_stop(stops[i])

\* A successful decode whose scrubber dropped a referenced stop for its name
\* and kept others.
C8_BadNameDropped ==
    /\ Succeeded
    /\ ScrubberKept # <<>>
    /\ Len(ScrubberKept) < Cardinality(referenced_indices(best_trips.trips))

\* The decoder state the scrubber has been applied to once: as it leaves it,
\* and as decode() returns it.
Scrubbed == (pc = "extract_edges" /\ trip_i = 1) \/ Succeeded

\* C9: the scrubber is idempotent: applied to a state it has left, it
\* changes none of stops, trips and edges.
C9_SecondRunChangesNothing ==
    Scrubbed =>
        filter_stops(stops, trips, edges)
            = [stops |-> stops, trips |-> trips, edges |-> edges]

\* A scrubbed state in which a second run shortens the stop list.
C9_SecondRunDropsStop ==
    /\ Scrubbed
    /\ ScrubberKept # <<>>
    /\ Len(filter_stops(stops, trips, edges).stops) < Len(stops)

(***************************************************************************)
(* The phases of decode().                                                 *)
(***************************************************************************)
\* The file is shorter than 66 bytes, or its first 60 bytes, decoded as
\* cp1250, lack one of the three tokens.
HeaderRejected ==
    \/ Len(data) < 66
    \/ \E token \in { TokenTT, TokenTimeTable, TokenCHAPS } :
           ~Contains(decode_ignore(SubSeq(data, 1, 60)), token)

\* C11: when the file is shorter than 66 bytes or its first 60 bytes lack
\* one of 'TT', 'TimeTable', 'CHAPS', decode() fails at the header: no later
\* phase runs, and stops, P-records, trips and edges stay empty.
C11_HeaderMismatchEndsDecode ==
    HeaderRejected =>
        /\ pc \in { "verify_header", "returned" }
        /\ pc = "returned" => ret = "False"
        /\ stops = <<>> /\ p_records = <<>> /\ trips = <<>> /\ edges = <<>>

\* decode() has failed on a file of full length that holds 'CHAPS', but past
\* the 60 bytes the header test reads.
C11_TokenPastTheHeader ==
    /\ pc = "returned" /\ ret = "False"
    /\ HeaderRejected
    /\ Len(data) >= 66
    /\ Contains(data, TokenCHAPS)

\* The offsets the stop finder scans: all four alignments cover every offset
\* from 0x40 up to the end of the window.
ScanWindow ==
    { o \in 64..Len(data) : o < Min2(64 + search_limit(Len(data)), Len(data) - 8) }

\* The accepted candidates: the offsets where a stop list is read.
AcceptedCandidates ==
    { o \in ScanWindow : extract_stop_candidate(data, o) # NoneList }

\* The stop finder has just returned True; it has just returned False.
StopsFound == pc = "find_p_records"
StopsNotFound ==
    pc = "returned" /\ ret = "False" /\ ~HeaderRejected /\ best_stop_offset = NoneInt

\* What C12 says of the finder's result, given the accepted candidates and
\* those of them with 10 names or more.
BestOfCandidates(accepted, long) ==
    /\ StopsFound <=> long # {}
    /\ StopsFound =>
           /\ best_stop_offset \in long
           /\ stops = extract_stop_candidate(data, best_stop_offset)
           /\ stop_quality_score = score_stop_candidate(stops)
           /\ \A o \in accepted :
                  ~ScoreGT(score_stop_candidate(extract_stop_candidate(data, o)),
                           stop_quality_score)

\* C12: the stop finder succeeds exactly when some accepted candidate of the
\* scan window has 10 names or more; it then keeps a candidate no other
\* outscores, also when that score is below 20, and reports the score in
\* stop_quality_score; it fails only when no candidate has 10 names.
C12_StopTableSelection ==
    (StopsFound \/ StopsNotFound) =>
        BestOfCandidates(AcceptedCandidates,
            { o \in AcceptedCandidates : Len(extract_stop_candidate(data, o)) >= 10 })

\* The finder has kept a table that scores under 20, the better of two
\* candidates of ten names.
C12_LowQualityFallback ==
    /\ StopsFound
    /\ ~ScoreGE(stop_quality_score, 20)
    /\ Cardinality({ o \in AcceptedCandidates :
                        Len(extract_stop_candidate(data, o)) >= 10 }) >= 2

\* The loop of the trip selector has just dealt with a section: the section
\* is sections[section_i - 1], and dec still holds what its decoding left.
SectionConsidered == pc = "next_section" /\ section_i > 1

\* The trip score and the combined score of that section.
ConsideredTripScore == score_trips(flush_trip(dec))
ConsideredCombined ==
    combined_score(ConsideredTripScore, sections[section_i - 1].scan_score)

\* C13: among the 16 sections of highest scan_score the selector picks the
\* one of maximal combined = trip_score + scan_score / 1000, and fails only
\* if every section yields trip_score = -infinity.  Section by section: once
\* a section whose trip score is finite has been dealt with, a best section
\* is held and its combined score is no less than that section's.
C13_BestIsMaxCombined ==
    (SectionConsidered /\ ~ConsideredTripScore.inf) =>
        /\ best_trips.trips # NoneList
        /\ ~ScoreGT(ConsideredCombined, best_trips.score)

\* decode() has failed for want of trips although the last section it
\* decoded has a finite trip score.
C13_ScoredSectionSkipped ==
    /\ pc = "returned" /\ ret = "False"
    /\ sections # <<>>
    /\ ~ConsideredTripScore.inf

\* _decode_from_offset has returned the trips of the one section of the file
\* that holds the stream.
Decoded(stream) == SectionConsidered /\ data = StreamFile(stream)
DecodedTrips == flush_trip(dec)

\* C14 (as amended): a fall of the minute splits trips, a rise does not.  The
\* stream (0,480),(1,485),(0,400),(1,406) gives the two trips
\* [(0,480),(1,485)] and [(0,400),(1,406)]; the stream
\* (0,480),(1,485),(0,500),(1,506), whose minutes never fall, gives the one
\* trip of its four entries.
C14_RegressionSplits ==
    /\ Decoded(FallingStream) =>
           DecodedTrips = << << <<0, 480>>, <<1, 485>> >>, << <<0, 400>>, <<1, 406>> >> >>
    /\ Decoded(RisingStream) =>
           DecodedTrips = << << <<0, 480>>, <<1, 485>>, <<0, 500>>, <<1, 506>> >> >>

\* C14 as stated: the stream (0,480),(1,485),(0,500),(1,506) gives the two
\* trips [(0,480),(1,485)] and [(0,500),(1,506)].
C14_RisingStreamTwoTrips ==
    Decoded(RisingStream) =>
        DecodedTrips = << << <<0, 480>>, <<1, 485>> >>, << <<0, 500>>, <<1, 506>> >> >>

\* The stream with the fall has been decoded into two trips.
C14_FallingStreamDecoded == Decoded(FallingStream) /\ Len(DecodedTrips) = 2

\* The loop of _decode_from_offset is at a word it accepts: byte1 is 0, the
\* minute is at most 1440 and the stop index is in the table.
AtAcceptedWord ==
    /\ pc = "decode_word"
    /\ cur_offset < decode_end(data, sections[section_i].offset) - 3
    /\ Byte1(data, cur_offset) = 0
    /\ Minutes(data, cur_offset) <= MaxMinutes
    /\ StopIdx(data, cur_offset) < Len(stops)

WordEntry == << StopIdx(data, cur_offset), Minutes(data, cur_offset) >>

\* The step of the loop at an accepted word that follows another: a rise of
\* more than 240 minutes closes the trip (kept if it has two entries) and
\* the word starts the next one; a rise of 0..240 minutes leaves the closed
\* trips alone and the current trip grows by the word or stays as it is.
JumpStep ==
    (AtAcceptedWord /\ dec.prev_minutes # NoneInt) =>
        /\ (Minutes(data, cur_offset) - dec.prev_minutes > 240) =>
               /\ dec'.current_trip = << WordEntry >>
               /\ dec'.trips = IF Len(dec.current_trip) >= 2
                               THEN Append(dec.trips, dec.current_trip)
                               ELSE dec.trips
        /\ (Minutes(data, cur_offset) - dec.prev_minutes \in 0..240) =>
               /\ dec'.trips = dec.trips
               /\ dec'.current_trip \in
                      { dec.current_trip, Append(dec.current_trip, WordEntry) }
        /\ (Minutes(data, cur_offset) - dec.prev_minutes = 240
            /\ dec.current_trip # <<>>) =>
               dec'.current_trip = Append(dec.current_trip, WordEntry)

\* C15: a jump of more than 240 minutes between accepted words closes the
\* current trip (emitted with two entries or more, dropped otherwise) and
\* the word is the first entry of a new trip; a jump of exactly 240 stays in
\* the trip; (0,100),(1,110),(2,400),(3,405) gives [(0,100),(1,110)] and
\* [(2,400),(3,405)].
C15_JumpOver240Splits ==
    /\ [](Decoded(JumpStream) =>
              DecodedTrips = << << <<0, 100>>, <<1, 110>> >>, << <<2, 400>>, <<3, 405>> >> >>)
    /\ [][JumpStep]_vars

\* A trip has been closed by a jump of 241 minutes and another has run
\* through a jump of 240, in the decoding of one file.
C15_BothJumpsDecoded ==
    /\ SectionConsidered
    /\ \E i \in 1..Len(DecodedTrips) : \E k \in 1..(Len(DecodedTrips[i]) - 1) :
           DecodedTrips[i][k + 1][2] - DecodedTrips[i][k][2] = 240
    /\ \E i \in 1..(Len(DecodedTrips) - 1) :
           DecodedTrips[i + 1][1][2] - DecodedTrips[i][Len(DecodedTrips[i])][2] = 241

\* The number of entries of the trip at the minute.
EntriesAt(trip, minute) == Cardinality({ k \in 1..Len(trip) : trip[k][2] = minute })

StreakBounded(trip) == \A k \in 1..Len(trip) : EntriesAt(trip, trip[k][2]) <= 4

\* C16: no trip holds more than four entries of one minute, while it is
\* decoded or in the decoder's result; the stream (0,300),(1,300),(2,300),
\* (3,300),(4,300),(5,305) gives one trip, of at most four entries at minute
\* 300 and then (5,305).
C16_SameMinuteStreakCapped ==
    /\ StreakBounded(dec.current_trip)
    /\ \A i \in 1..Len(dec.trips) : StreakBounded(dec.trips[i])
    /\ \A i \in 1..Len(trips) : StreakBounded(trips[i])
    /\ Decoded(SameMinuteStream) =>
           /\ Len(DecodedTrips) = 1
           /\ \E n \in 1..4 :
                  /\ Len(DecodedTrips[1]) = n + 1
                  /\ \A k \in 1..n : DecodedTrips[1][k][2] = 300
                  /\ DecodedTrips[1][n + 1] = <<5, 305>>

\* The five words of minute 300 have been decoded: the trip has fewer
\* entries than the stream has words.
C16_StreakWordsDropped ==
    /\ Decoded(SameMinuteStream)
    /\ Len(DecodedTrips) = 1
    /\ Len(DecodedTrips[1]) < Len(SameMinuteStream)

\* C17 (as amended): the minimal file, with five names in its stop table, is
\* not decoded.  The stop finder keeps no table of fewer than 10 names, so
\* decode() returns False from _find_stops: no stop offset, no stops, no
\* trips, no edges.
C17_MinimalFileNotDecoded ==
    data \in MinimalFiles =>
        /\ pc \in { "verify_header", "find_stops", "returned" }
        /\ pc = "returned" => ret = "False"
        /\ best_stop_offset = NoneInt
        /\ stops = <<>> /\ trips = <<>> /\ edges = <<>>

\* C17 as stated: the minimal file decodes to the five names (or the four
\* referenced ones), the one trip of four entries, and three edges with the
\* samples [5], [7], [8].
C17_MinimalFileDecoded ==
    (data \in MinimalFiles /\ pc = "returned") =>
        /\ ret = "True"
        /\ stops \in { MinimalNames, SubSeq(MinimalNames, 1, 4) }
        /\ trips = << << <<0, 480>>, <<1, 485>>, <<2, 492>>, <<3, 500>> >> >>
        /\ edges = << [key |-> <<0, 1>>, times |-> <<5>>],
                      [key |-> <<1, 2>>, times |-> <<7>>],
                      [key |-> <<2, 3>>, times |-> <<8>>] >>

\* decode() has returned False on a minimal file whose table at 0x40 reads
\* as the five names.
C17_FiveNamesRead ==
    /\ data \in MinimalFiles
    /\ pc = "returned" /\ ret = "False"
    /\ extract_stop_candidate(data, StopScanStart) = MinimalNames

\* The old indices of the stops that survive the scrubber: a trip names the
\* stop and its name matches no bad pattern.
SurvivorsOf(old_stops, old_trips) ==
    { o \in 0..(Len(old_stops) - 1) :
          /\ \E t \in 1..Len(old_trips) : \E k \in 1..Len(old_trips[t]) :
                 old_trips[t][k][1] = o
          /\ ~is_bad_stop(old_stops[o + 1]) }

\* The new index of a surviving stop: the number of survivors before it.
NewIndex(survivors, o) == Cardinality({ q \in survivors : q < o })

\* A trip with the entries of dropped stops removed and the others re-indexed.
Rewritten(survivors, trip) ==
    LET surviving == SelectSeq(trip, LAMBDA e : e[1] \in survivors)
    IN  [k \in 1..Len(surviving) |->
            << NewIndex(survivors, surviving[k][1]), surviving[k][2] >>]

\* stops and trips are what the scrubber makes of old_stops and old_trips
\* when some stop survives.
ScrubbedFrom(old_stops, old_trips, survivors) ==
    survivors # {} =>
        /\ Len(stops) = Cardinality(survivors)
        /\ \A o \in survivors : stops[NewIndex(survivors, o) + 1] = old_stops[o + 1]
        /\ trips = SelectSeq(
                       [t \in 1..Len(old_trips) |-> Rewritten(survivors, old_trips[t])],
                       LAMBDA trip : Len(trip) >= 2)

\* The name of the bank matches a bad pattern.
PoiNameIsBad == is_bad_stop(UniCreditName)

\* C18: when the scrubber runs, a stop is dropped iff no trip names it or its
\* name matches a bad pattern (as 'UniCredit Bank, pobočka Praha' does); the
\* surviving stops keep their order and get the new indices 0..n-1; a trip
\* entry of a surviving stop is rewritten to the new index, which names the
\* same string as the old one did; the entries of dropped stops are removed
\* and a trip left with fewer than 2 entries is discarded.
C18_ScrubberRewrite ==
    /\ PoiNameIsBad
    /\ Scrubbed =>
           \A old_stops \in { find_stops(data).stops } :
               \A survivors \in { SurvivorsOf(old_stops, best_trips.trips) } :
                   ScrubbedFrom(old_stops, best_trips.trips, survivors)

\* The scrubber has run on a file whose stop 1 is the bank, named by a trip:
\* the stop is gone, and so is a trip.
C18_ReferencedPoiDropped ==
    /\ Scrubbed
    /\ data \in PoiFiles
    /\ ScrubberKept # <<>>
    /\ 1 \in referenced_indices(best_trips.trips)
    /\ \A i \in 1..Len(stops) : stops[i] # UniCreditName
    /\ Len(trips) < Len(best_trips.trips)

\* batch_decode has gone through the directory and printed the totals.
BatchDone ==
    /\ cli_pc = "exited"
    /\ Len(argv) = 2 /\ argv[1] = BatchFlag
    /\ tt_files # <<>>
    /\ file_i > Len(tt_files)

\* The output elements about the file, and the summary lines.
LinesOf(i) == { k \in 1..Len(output) : output[k].file = i }
SummaryLines == { k \in 1..Len(output) : output[k].kind = "summary" }

RECURSIVE SumOver(_, _)
SumOver(S, field) ==
    IF S = {} THEN 0
    ELSE LET k == CHOOSE x \in S : TRUE
         IN  (IF field = "a" THEN output[k].a ELSE IF field = "b" THEN output[k].b
              ELSE output[k].c)
             + SumOver(S \ {k}, field)

\* C19: in batch mode every file of the directory is processed in turn
\* whatever failed before, each file gets exactly one line of output (a
\* summary line if it decoded, a failure line if not), and the totals are
\* the sums over the files that decoded.
C19_OneLinePerFile ==
    BatchDone =>
        /\ \A i \in 1..Len(tt_files) : Cardinality(LinesOf(i)) = 1
        /\ Cardinality(SummaryLines) = success_count
        /\ total_stops = SumOver(SummaryLines, "a")
        /\ total_trips = SumOver(SummaryLines, "b")
        /\ total_edges = SumOver(SummaryLines, "c")

\* A batch of two files is done, the first failed and the second decoded:
\* the output has a line about the second file and none about the first.
C19_FailedFileUnreported ==
    /\ BatchDone
    /\ Len(tt_files) = 2
    /\ success_count = 1
    /\ LinesOf(1) = {}
    /\ LinesOf(2) # {}

\* The process was started in batch mode, or with no argument at all.
BatchInvoked == Len(argv) = 0 \/ argv[1] = BatchFlag

\* An argument is missing, or the path names nothing or cannot be read, or
\* names a directory an entry of which cannot be read.
InvocationError ==
    \/ Len(argv) < 2
    \/ target.kind \in { "missing", "locked_dir" }
    \/ \E i \in 1..Len(target.entries) : target.entries[i] = Unreadable

\* C20: the batch CLI exits with 0 when at least one file was decoded and
\* with a non-zero code on an invocation error: a missing argument, a path
\* that does not exist or cannot be read.
C20_ExitCodes ==
    (cli_pc = "exited" /\ BatchInvoked) =>
        /\ InvocationError => exit_code # 0
        /\ (~InvocationError /\ success_count >= 1) => exit_code = 0

\* The batch was given a path that names nothing and the process has exited
\* with 0.
C20_MissingDirectoryExitsZero ==
    /\ cli_pc = "exited"
    /\ Len(argv) = 2 /\ argv[1] = BatchFlag
    /\ target.kind = "missing"
    /\ exit_code = 0

\* The layout of a stop table at offset o of the file, read word by word:
\* the two counts, the offsets, the two blob sizes and the blob lie inside
\* the file and agree with each other.
CountsFit(o) == o + 8 <= Len(data)
ItemCount(o) == U32(data, o + 4)
CountsAgree(o) ==
    /\ ItemCount(o) >= 2 /\ ItemCount(o) <= 20000
    /\ U32(data, o) = ItemCount(o) * 4
BlobStart(o) == o + 8 + 4 * ItemCount(o)
OffsetAt(o, i) == U32(data, o + 8 + 4 * (i - 1))

WellFormedAt(o) ==
    /\ CountsFit(o)
    /\ CountsAgree(o)
    /\ BlobStart(o) + 8 <= Len(data)
    /\ \A i \in 1..(ItemCount(o) - 1) : OffsetAt(o, i) <= OffsetAt(o, i + 1)
    /\ U32(data, BlobStart(o)) = U32(data, BlobStart(o) + 4)
    /\ OffsetAt(o, ItemCount(o)) = U32(data, BlobStart(o))
    /\ BlobStart(o) + 8 + U32(data, BlobStart(o)) <= Len(data)

\* A table whose counts are right and which does not fit in the file.
CutShortAt(o) ==
    /\ CountsFit(o)
    /\ CountsAgree(o)
    /\ \/ BlobStart(o) + 8 > Len(data)
       \/ BlobStart(o) + 8 + U32(data, BlobStart(o)) > Len(data)

\* C21: a stop-table candidate is accepted only if total_bytes is
\* 4 * item_count, item_count is in 2..20000, the offsets do not decrease,
\* the two words after them are equal, the last offset is that blob size and
\* the blob ends inside the file; it then has item_count - 1 names.  A
\* candidate that would run past the end of the file is rejected like any
\* other, and the scan goes on: a table of ten names or more that is
\* accepted anywhere in the window makes the finder succeed.
C21_CandidateLayout ==
    (StopsFound \/ StopsNotFound) =>
        /\ \A o \in 0..Len(data) :
               \A candidate \in { extract_stop_candidate(data, o) } :
                   candidate # NoneList =>
                       /\ WellFormedAt(o)
                       /\ Len(candidate) = ItemCount(o) - 1
        /\ (\E o \in AcceptedCandidates : Len(extract_stop_candidate(data, o)) >= 10)
               => StopsFound

\* The finder has succeeded on a file whose window holds, before the table
\* it chose, a table with the right counts that does not pass, or, after
\* it, a table cut short by the end of the file.
C21_MalformedTablePassedOver ==
    /\ StopsFound
    /\ \/ \E o \in ScanWindow :
              /\ o < best_stop_offset
              /\ CountsFit(o) /\ CountsAgree(o)
              /\ extract_stop_candidate(data, o) = NoneList
       \/ \E o \in ScanWindow : o > best_stop_offset /\ CutShortAt(o)

\* The word at offset o is one the trip decoder accepts.
AcceptedAt(o) ==
    /\ Byte1(data, o) = 0
    /\ Minutes(data, o) <= MaxMinutes
    /\ StopIdx(data, o) < Len(stops)

\* The entries of the accepted words among the n words from offset first on.
RECURSIVE AcceptedEntries(_, _)
AcceptedEntries(first, n) ==
    IF n = 0 THEN << >>
    ELSE LET o == first + 4 * (n - 1)
         IN  IF AcceptedAt(o)
             THEN Append(AcceptedEntries(first, n - 1), << StopIdx(data, o), Minutes(data, o) >>)
             ELSE AcceptedEntries(first, n - 1)

\* The decoder state after the entries, each taken as an accepted word.
RECURSIVE StateAfter(_)
StateAfter(entries) ==
    IF entries = << >> THEN DecodeStart
    ELSE LET e == entries[Len(entries)]
             st == StateAfter(SubSeq(entries, 1, Len(entries) - 1))
         IN  append_entry(after_jump(after_regression(st, e[2]), e[2]), e[1], e[2])

\* C22: a word with byte1 not 0, a minute over 1440 or a stop index past
\* the stop table changes nothing of the decoder state: at every point of
\* the loop the state (emitted trips, current trip, previous minute, streak)
\* is the one the accepted words read so far give by themselves, and so are
\* the trips returned, wherever the other words stand among them.
C22_SkippedWordsLeaveNoTrace ==
    /\ pc = "decode_word" =>
           dec = StateAfter(AcceptedEntries(sections[section_i].offset,
                     (cur_offset - sections[section_i].offset) \div 4))
    /\ SectionConsidered =>
           DecodedTrips = flush_trip(StateAfter(AcceptedEntries(sections[section_i - 1].offset,
                     (cur_offset - sections[section_i - 1].offset) \div 4)))

\* The loop has just appended an entry to a trip of two entries or more,
\* after three words in a row that it skipped, one of each kind.
C22_TripAcrossSkippedWords ==
    /\ pc = "decode_word"
    /\ cur_offset - sections[section_i].offset >= 20
    /\ Len(dec.current_trip) >= 2
    /\ AcceptedAt(cur_offset - 4)
    /\ dec.current_trip[Len(dec.current_trip)]
           = << StopIdx(data, cur_offset - 4), Minutes(data, cur_offset - 4) >>
    /\ { cur_offset - 8, cur_offset - 12, cur_offset - 16 }
           = { o \in { cur_offset - 8, cur_offset - 12, cur_offset - 16 } : ~AcceptedAt(o) }
    /\ \E o \in { cur_offset - 8, cur_offset - 12, cur_offset - 16 } : Byte1(data, o) # 0
    /\ \E o \in { cur_offset - 8, cur_offset - 12, cur_offset - 16 } :
           Byte1(data, o) = 0 /\ Minutes(data, o) > MaxMinutes
    /\ \E o \in { cur_offset - 8, cur_offset - 12, cur_offset - 16 } :
           Byte1(data, o) = 0 /\ Minutes(data, o) <= MaxMinutes /\ StopIdx(data, o) >= Len(stops)

\* _find_time_sections has returned: the loop over its sections is about to
\* start, or decode() has returned False for want of a section.
SectionsScanned ==
    \/ pc = "next_section" /\ section_i = 1
    \/ pc = "returned" /\ ret = "False" /\ best_stop_offset # NoneInt /\ sections = << >>

\* The offsets the scan probes: 0x100, 0x500, ... below the end of the file,
\* and the three offsets after each.
ProbeOffsets ==
    { o \in 256..(Len(data) + 3) :
          /\ (o - 256) % 1024 <= 3
          /\ o - ((o - 256) % 1024) < Len(data) }

\* The valid words among the 30 of the probe at o that lie in the file.
ValidWordsAt(o) ==
    { w \in { o + 4 * i : i \in 0..29 } :
          w + 4 <= Len(data) /\ Byte1(data, w) = 0 /\ Minutes(data, w) <= 1440 }
MinutesAt(o) == { Minutes(data, w) : w \in ValidWordsAt(o) }
StopsAt(o) == { StopIdx(data, w) : w \in ValidWordsAt(o) }

Qualifies(o) ==
    /\ Cardinality(ValidWordsAt(o)) >= 10
    /\ Cardinality(MinutesAt(o)) > 5
    /\ Cardinality(StopsAt(o)) > 3

\* C23: the scan records a probe offset iff at least 10 of its words are
\* valid and they show more than 5 minutes and more than 3 stops; the
\* scan_score recorded is the product of the three numbers, between 240 and
\* 27000; the list is in order of non-increasing scan_score.
C23_SectionsRecorded ==
    SectionsScanned =>
        /\ { sections[k].offset : k \in 1..Len(sections) }
               = { o \in ProbeOffsets : Qualifies(o) }
        /\ \A k \in 1..Len(sections) : \A j \in 1..Len(sections) :
               sections[k].offset = sections[j].offset => k = j
        /\ \A k \in 1..Len(sections) :
               /\ sections[k].scan_score
                      = Cardinality(ValidWordsAt(sections[k].offset))
                        * Cardinality(MinutesAt(sections[k].offset))
                        * Cardinality(StopsAt(sections[k].offset))
               /\ sections[k].scan_score >= 240 /\ sections[k].scan_score <= 27000
        /\ \A k \in 1..(Len(sections) - 1) :
               sections[k].scan_score >= sections[k + 1].scan_score

\* The scan has recorded the probe at 0x500 before the one at 0x100, whose
\* score is lower, and passed over a probe with valid words.
C23_SectionsOrdered ==
    /\ SectionsScanned
    /\ Len(sections) >= 2
    /\ sections[1].offset > sections[2].offset
    /\ sections[1].scan_score > sections[2].scan_score
    /\ \E o \in ProbeOffsets : ValidWordsAt(o) # {} /\ ~Qualifies(o)

\* The scrubber applied to lists of which one is empty.
EmptyListsUntouched ==
    \A ss \in { << >>, MinimalNames } :
        \A ts \in { << >>, << << <<0, 480>>, <<1, 485>> >> >> } :
            \A es \in { << >>, << [key |-> <<0, 1>>, times |-> <<5>>] >> } :
                (ss = << >> \/ ts = << >>) =>
                    filter_stops(ss, ts, es) = [stops |-> ss, trips |-> ts, edges |-> es]

\* C24: when no stop is both named by a trip and free of bad patterns, or
\* stops or trips are empty, the scrubber leaves stops, trips and edges as
\* they were.  In decode(): the stops are those the finder returned, the
\* trips those the selector chose, and there are no edges yet.  On the
\* state decode() returns, where there are edges: a further run changes
\* nothing.
C24_SkippedScrubberChangesNothing ==
    /\ EmptyListsUntouched
    /\ Scrubbed =>
           \A old_stops \in { find_stops(data).stops } :
               SurvivorsOf(old_stops, best_trips.trips) = {} =>
                   /\ stops = old_stops
                   /\ trips = best_trips.trips
                   /\ pc = "extract_edges" /\ trip_i = 1 => edges = << >>
    /\ (Succeeded /\ SurvivorsOf(stops, trips) = {}) =>
           filter_stops(stops, trips, edges)
               = [stops |-> stops, trips |-> trips, edges |-> edges]

\* decode() has succeeded with the scrubber skipped: every stop the trips
\* name has a bad name, and the list still holds them and a stop that no
\* trip names.
C24_ScrubberSkipped ==
    /\ Succeeded
    /\ edges # << >>
    /\ SurvivorsOf(stops, trips) = {}
    /\ stops = find_stops(data).stops
    /\ \E i \in 1..Len(stops) : is_bad_stop(stops[i]) /\ (i - 1) \in referenced_indices(trips)
    /\ \E i \in 1..Len(stops) : (i - 1) \notin referenced_indices(trips)

\* The selector has returned: True, the scrubber being next, or False.
SelectionDone ==
    \/ pc = "filter_stops"
    \/ pc = "returned" /\ ret = "False" /\ sections # << >>

\* The number of words the trip decoder reads from offset first, and the
\* trips it returns, the stop list being the one the finder left.
WordsFrom(first) ==
    LET last == Min2(first + 50000, Len(data)) - 3
    IN  IF last <= first THEN 0 ELSE (last - first + 3) \div 4

TripsFrom(first) == flush_trip(StateAfter(AcceptedEntries(first, WordsFrom(first))))

\* A trip list the selector does not take: empty, one trip of fewer than 10
\* entries, or no trip with two distinct stops.
Unselectable(ts) ==
    \/ ts = << >>
    \/ Len(ts) = 1 /\ Len(ts[1]) < 10
    \/ \A t \in 1..Len(ts) : Cardinality(StopsOf(ts[t])) < 2

\* C25: a section whose trips are one trip of fewer than 10 entries is
\* never selected, whatever its scores; when every section among the first
\* 16 is of that kind, or gives no trips, or gives no trip with two distinct
\* stops, decode fails.
C25_SingleShortTripNeverSelected ==
    /\ best_trips.trips # NoneList =>
           ~(Len(best_trips.trips) = 1 /\ Len(best_trips.trips[1]) < 10)
    /\ SelectionDone =>
           /\ pc = "filter_stops" =>
                  /\ trips = TripsFrom(best_time_offset)
                  /\ ~Unselectable(trips)
           /\ (\A k \in 1..Len(sections) : Unselectable(TripsFrom(sections[k].offset)))
                  => pc = "returned"

\* decode() has failed on a file with a section whose one trip, of fewer
\* than 10 entries, has two distinct stops, or the selector has passed over
\* such a section although its combined score is the higher one.
C25_ShortTripSectionPassedOver ==
    /\ SelectionDone
    /\ \E k \in 1..Len(sections) :
           \E ts \in { TripsFrom(sections[k].offset) } :
               /\ Len(ts) = 1 /\ Len(ts[1]) < 10 /\ Cardinality(StopsOf(ts[1])) >= 2
               /\ \/ pc = "returned"
                  \/ /\ pc = "filter_stops"
                     /\ ScoreGT(combined_score(score_trips(ts), sections[k].scan_score),
                                best_trips.score)

\* C26: whenever decode() reports success, the trips list is not empty.
C26_SuccessHasTrips == Succeeded => trips # << >>

\* decode() has returned True with stops kept by the scrubber and no trip:
\* every selected trip was left with fewer than two entries.
C26_SuccessWithoutTrips ==
    /\ Succeeded
    /\ trips = << >>
    /\ edges = << >>
    /\ stops # << >>
    /\ best_trips.trips # << >>

\* The largest number of stops a byte can index.
ByteRange == 256

\* C27: every stop index of a decoded trip is below 256, so that only the
\* first 256 names of the selected table are referenced, and when the
\* scrubber rewrites the lists the final stop list has at most 256 entries,
\* however many names the table held.
C27_StopIndexIsOneByte ==
    /\ referenced_indices(dec.trips \o << dec.current_trip >>) \subseteq 0..(ByteRange - 1)
    /\ best_trips.trips # NoneList =>
           referenced_indices(best_trips.trips) \subseteq 0..(ByteRange - 1)
    /\ referenced_indices(trips) \subseteq 0..(ByteRange - 1)
    /\ Scrubbed => \A old_stops \in { find_stops(data).stops } :
           SurvivorsOf(old_stops, best_trips.trips) # {} => Len(stops) <= ByteRange

\* decode() has succeeded on a table of more than 256 names: the selected
\* trips name stop 255, the word of byte1 = 1 has left no entry, and the
\* scrubber has cut the list down to the stops referenced.
C27_WideTableScrubbed ==
    /\ Succeeded
    /\ Len(find_stops(data).stops) > ByteRange
    /\ 255 \in referenced_indices(best_trips.trips)
    /\ Len(best_trips.trips[1]) = 10
    /\ Len(stops) <= 5
    /\ trips # << >>

\* The scrubber has returned in decode().
AfterScrubber == pc = "extract_edges" \/ Succeeded

\* C28: in decode() the scrubber runs before the edge extractor, so that
\* both endpoints of every edge are indices into the final stop list, and
\* export_json names every endpoint from the list, never as 'Stop#n'.
C28_EdgeEndpointsNamed ==
    /\ pc = "filter_stops" => edges = << >>
    /\ edges # << >> => AfterScrubber
    /\ AfterScrubber =>
           \A i \in 1..Len(edges) :
               /\ edges[i].key[1] \in 0..(Len(stops) - 1)
               /\ edges[i].key[2] \in 0..(Len(stops) - 1)
    /\ Succeeded =>
           \A x \in { export_json(stops, edges) } :
               /\ Len(x) = Len(edges)
               /\ \A i \in 1..Len(x) :
                      /\ x[i].from_stop = stops[edges[i].key[1] + 1]
                      /\ x[i].to_stop = stops[edges[i].key[2] + 1]
                      /\ x[i].from_stop # StopHash \o Decimal(edges[i].key[1])
                      /\ x[i].to_stop # StopHash \o Decimal(edges[i].key[2])

\* decode() has succeeded with edges, the scrubber has shortened the stop
\* list, an edge ends at the last stop of the list, and a selected trip named
\* an old index beyond the final list.
C28_EdgesAfterRewrite ==
    /\ Succeeded
    /\ edges # << >>
    /\ Len(stops) < Len(find_stops(data).stops)
    /\ \E i \in 1..Len(edges) : edges[i].key[2] = Len(stops) - 1
    /\ \E o \in referenced_indices(best_trips.trips) : o >= Len(stops)

\* The sources load_source has been called for, in the fast merger and in
\* the loop over GTFSIntegrator._load_stops.
LoadedFast ==
    IF merge_pc = "load" THEN source_i - 1
    ELSE IF merge_pc = "process" THEN Len(feeds) ELSE 0

LoadedClassic == IF merge_pc = "classic_load" THEN source_i - 1 ELSE 0

\* The source stops of the first n feeds, <<feed, row>>, and their rows.
SourceStops(n) ==
    UNION { { <<k, i>> : i \in 1..Len(rows_of(feeds[k].stops)) } : k \in 1..n }

SourceStop(p) == feeds[p[1]].stops.rows[p[2]]

FastId(p) == integrator.stop_map[feeds[p[1]].name][SourceStop(p).stop_id]

ClassicId(p) == classic.stop_id_map[map_key(feeds[p[1]].name, SourceStop(p).stop_id)]

\* The rows of the merged stop list: one per distinct name of a source stop,
\* of pairwise distinct stop_ids numbered below the counter in the order of
\* the list.
OneRowPerName(rows, next_id, names) ==
    /\ { rows[k].stop_name : k \in 1..Len(rows) } = names
    /\ Len(rows) = Cardinality(names)
    /\ \A j, k \in 1..Len(rows) : j < k =>
           /\ rows[j].stop_id # rows[k].stop_id
           /\ rows[j].stop_id[2] < rows[k].stop_id[2]
    /\ \A k \in 1..Len(rows) : rows[k].stop_id[1] = "ST" /\ rows[k].stop_id[2] \in 1..(next_id - 1)

DeduplicatedFast ==
    \A src \in { SourceStops(LoadedFast) } :
        /\ \A p \in src : SourceStop(p).stop_id \in DOMAIN integrator.stop_map[feeds[p[1]].name]
        /\ \A p, q \in src :
               (FastId(p) = FastId(q)) <=> (SourceStop(p).stop_name = SourceStop(q).stop_name)
        /\ \A p \in src : \E k \in 1..Len(integrator.stops) :
               /\ integrator.stops[k].stop_id = FastId(p)
               /\ integrator.stops[k].stop_name = SourceStop(p).stop_name
        /\ OneRowPerName(integrator.stops, integrator.next_stop_id,
                         { SourceStop(p).stop_name : p \in src })

DeduplicatedClassic ==
    \A src \in { SourceStops(LoadedClassic) } :
        /\ \A p \in src :
               map_key(feeds[p[1]].name, SourceStop(p).stop_id) \in DOMAIN classic.stop_id_map
        /\ \A p, q \in src :
               (ClassicId(p) = ClassicId(q))
                   <=> (SourceStop(p).stop_name = SourceStop(q).stop_name)
        /\ \A p \in src : \E k \in 1..Len(classic.stops) :
               /\ classic.stops[k].stop_id = ClassicId(p)
               /\ classic.stops[k].stop_name = SourceStop(p).stop_name
        /\ OneRowPerName(classic.stops, classic.next_stop_id,
                         { SourceStop(p).stop_name : p \in src })

Processed == IF merge_pc = "process" THEN source_i - 1 ELSE 0

\* The stop_times rows of the first n sources, <<feed, row>>.
SourceRows(n) ==
    UNION { { <<k, i>> : i \in 1..Len(rows_of(feeds[k].stop_times)) } : k \in 1..n }

SourceRow(p) == feeds[p[1]].stop_times.rows[p[2]]

\* The identifiers load_source mapped for a source: those of its trips.txt
\* and of its stops.txt.
TripIds(k) == { rows_of(feeds[k].trips)[i].trip_id : i \in 1..Len(rows_of(feeds[k].trips)) }
StopIds(k) == { rows_of(feeds[k].stops)[i].stop_id : i \in 1..Len(rows_of(feeds[k].stops)) }

Mapped(p) == SourceRow(p).trip_id \in TripIds(p[1]) /\ SourceRow(p).stop_id \in StopIds(p[1])

\* The trip of the row is of a route of routes.txt that is an MHD route.
OfMhdRoute(p) ==
    \E t \in 1..Len(rows_of(feeds[p[1]].trips)) :
        /\ feeds[p[1]].trips.rows[t].trip_id = SourceRow(p).trip_id
        /\ \E r \in 1..Len(rows_of(feeds[p[1]].routes)) :
               /\ feeds[p[1]].routes.rows[r].route_id = feeds[p[1]].trips.rows[t].route_id
               /\ is_mhd_route(feeds[p[1]].routes.rows[r].route_short_name,
                               feeds[p[1]].routes.rows[r].route_type,
                               feeds[p[1]].routes.rows[r].route_long_name)

\* The row written for a mapped source row.
Written(p) ==
    [trip_id |-> integrator.trip_map[feeds[p[1]].name][SourceRow(p).trip_id],
     stop_id |-> integrator.stop_map[feeds[p[1]].name][SourceRow(p).stop_id],
     stop_sequence |-> SourceRow(p).stop_sequence]

Count(rows, row) == Cardinality({ k \in 1..Len(rows) : rows[k] = row })

====
